---- MODULE Spec2Model ----
(***************************************************************************)
(* Encrypted object storage pipeline and token codec of tempdownloads.     *)
(*                                                                         *)
(* Bytes are pairs <<hi, lo>> of nibbles.  A nibble is a tuple: <<v>> with  *)
(* v \in 0..15 for a data nibble, a longer tuple for a nibble of an        *)
(* AES-GCM authentication tag (every byte of a tag is kept symbolic as the *)
(* term the tag was computed over, so two tags agree in a byte exactly     *)
(* when key, nonce and ciphertext are the same).                           *)
(***************************************************************************)
EXTENDS Integers, Sequences, FiniteSets, TLC

VARIABLES
    encryptionKeys,  \* config.security.encryptionKeys: sequence of key strings
    encryptionIv,    \* config.security.encryptionIv: the configured IV string
    issued,          \* history: tokens returned by encrypt, with payload and key
    dec,             \* the last call of decrypt: its input and what it returned
    fileExists,      \* uploads/<filename>: is there a file
    fileBytes,       \* uploads/<filename>: its bytes
    obj,             \* history: what the stored object was written from
    wr,              \* the running call of saveLocalStream
    rd,              \* the running call of getStream and the stream it returned
    provider,        \* config.storage.provider
    links,           \* the links table: link id -> row
    storage,         \* storage keys (filenames) the provider holds a file for
    clock,           \* Date.now()
    reqs,            \* HTTP requests: request id -> where its handler stands
    jobs,            \* the job queue: jobs added and not yet processed
    idempotencyCache, \* the idempotency middleware's Map: scoped key -> response
    inFlightRequests, \* the deduplication middleware's Map: fingerprint -> entry
    queues,          \* jobQueue: the priority queues high, normal, low
    activeJobs,      \* jobQueue: jobs whose handler was started and has not settled
    failedJobs,      \* jobQueue: the dead letter queue
    jobLog,          \* history: every job addJob accepted, with its runs and failures
    failedFileDeletions, \* the failed_file_deletions table, rows with their history
    gc               \* processCleanup: where the run is, its locals, and what it purged

cfgVars   == <<encryptionKeys, encryptionIv>>
tokenVars == <<issued, dec>>
storeVars == <<fileExists, fileBytes, obj, wr, rd>>
sysVars   == <<inFlightRequests, queues, activeJobs, failedJobs, jobLog, failedFileDeletions,
               gc>>
appVars   == <<provider, links, storage, clock, reqs, jobs, idempotencyCache, sysVars>>
vars      == <<encryptionKeys, encryptionIv, issued, dec, fileExists, fileBytes, obj, wr, rd,
               provider, links, storage, clock, reqs, jobs, idempotencyCache, sysVars>>

(***************************************************************************)
(* Bounds of the model.                                                    *)
(***************************************************************************)
MaxKeys   == 2   \* longest keyring
NumKeyStrings == 2   \* distinct key strings an operator configures
NumIvStrings  == 2   \* distinct IV strings an operator configures
MaxIssued == 2   \* tokens remembered in the history
MaxId     == 2   \* link ids 1..MaxId
MaxExp    == 1   \* expiry stamps 1..MaxExp (besides null)
MaxTail   == 2   \* bytes of an upload after its first four
NumNonces == 2   \* distinct values crypto.randomBytes returns
MaxRequests == 2 \* HTTP requests the model follows
MaxClock  == 2   \* Date.now() runs from 0 to MaxClock
MaxUsers  == 2   \* users whose role is not admin
MaxOps    == 3   \* admin API operations the model follows
MaxJobs   == 2   \* jobs handed to the in-memory queue
MaxLoad   == 6   \* jobs handed to the queue when it is loaded to capacity
MaxPolls  == 4   \* poll intervals the queue's clock runs through
MaxFailedDeletions == 2 \* rows of failed_file_deletions
MaxRuns   == 9   \* runs of the retry task, one each half hour
MaxLinks  == 2   \* links in the table when the garbage collector is followed
MaxCleanups == 1 \* runs of the garbage collector
MaxGarbage == 205 \* garbage links in the table when one run is followed to its end

(***************************************************************************)
(* Program constants.                                                      *)
(***************************************************************************)
IV_STRING_LENGTH == 16   \* ENCRYPTION_IV: z.string().length(16)
HEX_KEY_LENGTH   == 64   \* a key given as 64 hex characters
AES_KEY_BYTES    == 32   \* aes-256-gcm: 32 key bytes
GCM_TAG_BYTES    == 16   \* cipher.getAuthTag() of aes-256-gcm: 16 bytes
ivLength         == 16   \* this.ivLength
tagLength        == 16   \* this.tagLength
MAGIC_CHECK_SIZE == 4
\* tag lengths decipher.setAuthTag accepts for GCM when createDecipheriv was
\* given no authTagLength (node:crypto)
GcmTagLens == {4, 8, 12, 13, 14, 15, 16}

Min(S) == CHOOSE x \in S : \A y \in S : x <= y

(***************************************************************************)
(* Bytes, hex strings.                                                     *)
(***************************************************************************)
B(v) == << <<v \div 16>>, <<v % 16>> >>
IsDataNibble(n) == Len(n) = 1
ByteVal(b) == IF IsDataNibble(b[1]) /\ IsDataNibble(b[2])
              THEN b[1][1] * 16 + b[2][1] ELSE 0
\* a nibble with one bit changed
FlipNibble(n) ==
    IF IsDataNibble(n)
    THEN <<IF n[1] % 2 = 0 THEN n[1] + 1 ELSE n[1] - 1>>
    ELSE n \o <<1>>
Bytes(codes) == [i \in 1..Len(codes) |-> B(codes[i])]
Codes(bytes) == [i \in 1..Len(bytes) |-> ByteVal(bytes[i])]

\* A character of a string: a hex digit of nibble n (upper or lower case), or
\* one of two characters that are no hex digits, ':' and 'z'.
HexChar(n) == [n |-> n, up |-> FALSE]
Colon      == [n |-> <<>>, up |-> TRUE]
NonHexChar == [n |-> <<>>, up |-> FALSE]
IsHex(c)   == c.n # <<>>

\* buf.toString('hex'): two lower-case digits per byte
toHex(bytes) ==
    [i \in 1..(2 * Len(bytes)) |-> HexChar(bytes[(i + 1) \div 2][IF i % 2 = 1 THEN 1 ELSE 2])]

\* Buffer.from(str, 'hex') and the 'hex' input encoding of update(): pairs of
\* digits of either case; decoding stops at the first pair that is not two hex
\* digits, and a trailing single character is dropped.
HexDecodeLen(s) ==
    LET n   == Len(s) \div 2
        bad == {i \in 1..n : ~IsHex(s[2 * i - 1]) \/ ~IsHex(s[2 * i])}
    IN  IF bad = {} THEN n ELSE Min(bad) - 1
fromHex(s) == [i \in 1..HexDecodeLen(s) |-> <<s[2 * i - 1].n, s[2 * i].n>>]

(***************************************************************************)
(* AES-256-GCM (node:crypto).  The cipher is a keyed stream cipher; the    *)
(* tag is a function of key, nonce and ciphertext without collisions.      *)
(***************************************************************************)
RECURSIVE SumCodes(_)
SumCodes(bs) == IF bs = <<>> THEN 0 ELSE (ByteVal(bs[1]) + SumCodes(Tail(bs))) % 256

\* the key stream of (key, nonce): its byte at position i, from the seed
KeySeed(key, iv) == (key.id * 31 + SumCodes(iv)) % 256
KeyStream(seed, i) == (seed + 7 * i) % 256

\* cipher.update / decipher.update on the bytes that follow `offset` bytes
GcmEncryptBytes(key, iv, pt, offset) ==
    LET seed == KeySeed(key, iv)
    IN  [i \in 1..Len(pt) |-> B((ByteVal(pt[i]) + KeyStream(seed, offset + i)) % 256)]
GcmDecryptBytes(key, iv, ct, offset) ==
    LET seed == KeySeed(key, iv)
    IN  [i \in 1..Len(ct) |-> B((ByteVal(ct[i]) + 256 - KeyStream(seed, offset + i)) % 256)]

\* What the tag is computed over.  Data bytes are written as their values; a
\* 4-tuple keeps bytes that are no data bytes apart from those.
AllData(bs) == \A i \in 1..Len(bs) : IsDataNibble(bs[i][1]) /\ IsDataNibble(bs[i][2])
GcmTerm(key, iv, ct) ==
    IF AllData(iv) /\ AllData(ct)
    THEN <<key.id, Codes(iv), Codes(ct)>>
    ELSE <<key.id, iv, ct, 0>>
\* Byte i of the tag: its high nibble carries the term, its low nibble the
\* position.
GcmTag(key, iv, ct) ==
    LET term == GcmTerm(key, iv, ct)
    IN  [i \in 1..GCM_TAG_BYTES |-> << <<16, i, term>>, <<17, i>> >>]
\* decipher.final(): the tag set by setAuthTag against the leading bytes of the
\* tag of what was deciphered
GcmVerify(key, iv, ct, tag) ==
    /\ Len(tag) \in GcmTagLens
    /\ tag = SubSeq(GcmTag(key, iv, ct), 1, Len(tag))
\* createCipheriv / createDecipheriv throw for a key that is not 32 bytes and
\* for an empty nonce
CipherInitOk(key, iv) == key.len = AES_KEY_BYTES /\ Len(iv) >= 1

(***************************************************************************)
(* Key strings of the configuration: [id, len, hex], the string's identity,*)
(* its length in characters and whether it is all hex digits.              *)
(***************************************************************************)
\* The keys the model configures are well-formed: 64 hex characters (odd ids)
\* or 32 raw characters (even ids).
KeyString(i) ==
    IF i % 2 = 1 THEN [id |-> i, len |-> HEX_KEY_LENGTH, hex |-> TRUE]
    ELSE [id |-> i, len |-> AES_KEY_BYTES, hex |-> FALSE]
KeyStrings == {KeyString(i) : i \in 1..NumKeyStrings}

IvStrings == 1..NumIvStrings
\* Buffer.from(PARSED_IV): the 16 characters of the string as bytes
IvBytes(s) == [i \in 1..IV_STRING_LENGTH |-> B((s * 16 + i) % 256)]

\* PARSED_KEYS: a 64-character hex string is hex-decoded, any other string is
\* kept as it is (its characters are the key bytes)
ParseTokenKey(k) ==
    IF k.hex /\ k.len = HEX_KEY_LENGTH
    THEN [id |-> k.id, len |-> k.len \div 2]
    ELSE [id |-> k.id, len |-> k.len]
PARSED_KEYS(keys) == [i \in 1..Len(keys) |-> ParseTokenKey(keys[i])]
PARSED_IV(iv) == iv

(***************************************************************************)
(* JSON payloads {id, exp}: id a number, exp null (<<>>) or a number <<n>>.*)
(***************************************************************************)
Payloads == [id : 1..MaxId, exp : {<<>>} \cup {<<n>> : n \in 1..MaxExp}]

RECURSIVE Digits(_)
Digits(n) == IF n < 10 THEN <<48 + n>> ELSE Digits(n \div 10) \o <<48 + (n % 10)>>

\* {"id":
JsonHead == <<123, 34, 105, 100, 34, 58>>
\* ,"exp":
JsonMid  == <<44, 34, 101, 120, 112, 34, 58>>
JsonNull == <<110, 117, 108, 108>>
JsonEnd  == <<125>>

JSON_stringify(p) ==
    JsonHead \o Digits(p.id) \o JsonMid
      \o (IF p.exp = <<>> THEN JsonNull ELSE Digits(p.exp[1])) \o JsonEnd

IsDigit(c) == c >= 48 /\ c <= 57
\* number of digits of s from position i on
RECURSIVE DigitRun(_, _)
DigitRun(s, i) == IF i <= Len(s) /\ IsDigit(s[i]) THEN 1 + DigitRun(s, i + 1) ELSE 0
RECURSIVE NatOf(_)
NatOf(ds) == IF ds = <<>> THEN 0 ELSE NatOf(SubSeq(ds, 1, Len(ds) - 1)) * 10 + (ds[Len(ds)] - 48)
HasAt(s, i, w) == i + Len(w) - 1 <= Len(s) /\ SubSeq(s, i, i + Len(w) - 1) = w

\* JSON.parse on the texts of this payload shape; anything else is a
\* SyntaxError
JSON_parse(s) ==
    LET i1 == Len(JsonHead) + 1
        n1 == DigitRun(s, i1)
        i2 == i1 + n1
        i3 == i2 + Len(JsonMid)
        n3 == DigitRun(s, i3)
        isNull == HasAt(s, i3, JsonNull)
        i4 == i3 + (IF isNull THEN Len(JsonNull) ELSE n3)
        ok == /\ HasAt(s, 1, JsonHead)
              /\ n1 >= 1
              /\ HasAt(s, i2, JsonMid)
              /\ (isNull \/ n3 >= 1)
              /\ HasAt(s, i4, JsonEnd)
              /\ Len(s) = i4
    IN  IF ok
        THEN [threw |-> FALSE,
              value |-> [id  |-> NatOf(SubSeq(s, i1, i2 - 1)),
                         exp |-> IF isNull THEN <<>> ELSE <<NatOf(SubSeq(s, i3, i4 - 1))>>]]
        ELSE [threw |-> TRUE, value |-> [id |-> 0, exp |-> <<>>]]

(***************************************************************************)
(* Token codec (utils/sanitizer.js, encryption utility).                   *)
(***************************************************************************)
Result(kind, value) == [kind |-> kind, value |-> value]
NoPayload == [id |-> 0, exp |-> <<>>]
Null      == Result("null", NoPayload)
Thrown    == Result("throw", NoPayload)

\* `${iv.toString('hex')}:${authTag}:${encrypted}`
TokenString(ivHex, tagHex, encHex) == ivHex \o <<Colon>> \o tagHex \o <<Colon>> \o encHex

\* encrypt with the tag and the ciphertext written in the wrong order
encrypt_fieldsSwapped(payload, keys, ivString) ==
    LET text == Bytes(JSON_stringify(payload))
        iv   == IvBytes(PARSED_IV(ivString))
        key  == PARSED_KEYS(keys)[1]
        ct   == GcmEncryptBytes(key, iv, text, 0)
    IN  IF ~CipherInitOk(key, iv)
        THEN [threw |-> TRUE, token |-> <<>>]
        ELSE [threw |-> FALSE,
              token |-> TokenString(toHex(iv), toHex(ct), toHex(GcmTag(key, iv, ct)))]

encrypt(payload, keys, ivString) ==
    LET text == Bytes(JSON_stringify(payload))
        iv   == IvBytes(PARSED_IV(ivString))
        key  == PARSED_KEYS(keys)[1]
        ct   == GcmEncryptBytes(key, iv, text, 0)
    IN  IF ~CipherInitOk(key, iv)
        THEN [threw |-> TRUE, token |-> <<>>]
        ELSE [threw |-> FALSE,
              token |-> TokenString(toHex(iv), toHex(GcmTag(key, iv, ct)), toHex(ct))]

\* str.split(':')
RECURSIVE Split(_)
Split(s) ==
    LET cut == {i \in 1..Len(s) : s[i] = Colon}
    IN  IF cut = {} THEN <<s>>
        ELSE <<SubSeq(s, 1, Min(cut) - 1)>> \o Split(SubSeq(s, Min(cut) + 1, Len(s)))

\* The body of the key loop for one key: the payload, or a throw (caught by
\* the loop, which goes on to the next key).
TryKey(key, iv, authTag, encryptedHex) ==
    LET ct   == fromHex(encryptedHex)
        text == Codes(GcmDecryptBytes(key, iv, ct, 0))
        json == JSON_parse(text)
    IN  IF ~CipherInitOk(key, iv) THEN Thrown                \* createDecipheriv
        ELSE IF Len(authTag) \notin GcmTagLens THEN Thrown   \* setAuthTag
        ELSE IF Len(encryptedHex) % 2 # 0 THEN Thrown        \* update: odd hex input
        ELSE IF ~GcmVerify(key, iv, ct, authTag) THEN Thrown \* final
        ELSE IF json.threw THEN Thrown                       \* JSON.parse
        ELSE Result("payload", json.value)

\* the key loop giving up after the current key
KeyLoop_currentOnly(pkeys, i, iv, authTag, encryptedHex) ==
    IF i > Len(pkeys) THEN Null
    ELSE LET r == TryKey(pkeys[i], iv, authTag, encryptedHex)
         IN  IF r.kind = "payload" THEN r ELSE Null

\* for (const key of PARSED_KEYS), from index i on
RECURSIVE KeyLoop(_, _, _, _, _)
KeyLoop(pkeys, i, iv, authTag, encryptedHex) ==
    IF i > Len(pkeys) THEN Null
    ELSE LET r == TryKey(pkeys[i], iv, authTag, encryptedHex)
         IN  IF r.kind = "payload" THEN r
             ELSE KeyLoop(pkeys, i + 1, iv, authTag, encryptedHex)

\* An argument of decrypt: a string, or a value that is no string.
StringArg(chars) == [isString |-> TRUE, chars |-> chars]
NotAString       == [isString |-> FALSE, chars |-> <<>>]

decrypt(token, keys) ==
    IF ~token.isString THEN Null                 \* token.split is no function: caught
    ELSE LET parts == Split(token.chars)
         IN  IF Len(parts) # 3 THEN Null
             ELSE KeyLoop(PARSED_KEYS(keys), 1, fromHex(parts[1]), fromHex(parts[2]), parts[3])

(***************************************************************************)
(* Local storage strategy: file signatures, key, hash.                     *)
(***************************************************************************)
\* MAGIC_NUMBERS, in the order Object.entries gives them
MAGIC_NUMBERS ==
    << [ext |-> "jpg", numbers |-> <<255, 216, 255>>],
       [ext |-> "png", numbers |-> <<137, 80, 78, 71>>],
       [ext |-> "gif", numbers |-> <<71, 73, 70, 56>>],
       [ext |-> "pdf", numbers |-> <<37, 80, 68, 70>>],
       [ext |-> "zip", numbers |-> <<80, 75, 3, 4>>],
       [ext |-> "7z",  numbers |-> <<55, 122, 188, 175>>] >>

NoExt == "null"
validateBuffer(buffer) ==
    IF Len(buffer) < 4 THEN NoExt
    ELSE LET match == {e \in 1..Len(MAGIC_NUMBERS) :
                          \A i \in 1..Len(MAGIC_NUMBERS[e].numbers) :
                              ByteVal(buffer[i]) = MAGIC_NUMBERS[e].numbers[i]}
         IN  IF match = {} THEN NoExt ELSE MAGIC_NUMBERS[Min(match)].ext

\* _parseKey: a string of 64 characters is hex-decoded (which yields fewer
\* than 32 bytes when it is not all hex digits), any other string is padded
\* or cut to 32 characters
_parseKey(k) ==
    IF k.len = HEX_KEY_LENGTH
    THEN [id |-> k.id, len |-> IF k.hex THEN k.len \div 2 ELSE 0]
    ELSE [id |-> k.id, len |-> AES_KEY_BYTES]
\* this.key, set by the constructor from the key at index 0
thisKey(keys) == _parseKey(keys[1])

\* crypto.createHash('sha256') fed `bytes`, digest('hex')
Sha256(bytes) == <<"sha256", Codes(bytes)>>
\* crypto.randomBytes(this.ivLength)
RandomBytes(n) == [i \in 1..ivLength |-> B((n * 64 + i) % 256)]

(***************************************************************************)
(* Uploads: the leading bytes of some file types, whole or cut short or    *)
(* followed by more bytes.                                                 *)
(***************************************************************************)
Headers ==
    { <<137, 80, 78, 71>>,     \* .PNG
      <<255, 216, 255, 224>>,  \* JPEG
      <<77, 90, 144, 0>>,      \* MZ, an executable
      <<137, 80, 78, 0>> }     \* PNG but for the fourth byte
TailByte(i) == 64 + i
Uploads ==
    {Bytes(SubSeq(h, 1, k)) : h \in Headers, k \in 0..MAGIC_CHECK_SIZE}
    \cup {Bytes(h \o [i \in 1..k |-> TailByte(i)]) : h \in Headers, k \in 1..MaxTail}
HasAcceptedSignature(bytes) == validateBuffer(bytes) # NoExt

(***************************************************************************)
(* saveLocalStream and getStream as state machines.                        *)
(***************************************************************************)
\* the middleware and background state at rest
NoJobs == [high |-> <<>>, normal |-> <<>>, low |-> <<>>]
GcIdle == [pc |-> "idle", cutoffDate |-> 0, totalGarbage |-> 0, offset |-> 0,
           processedCount |-> 0, batch |-> {}, removed |-> {}, purged |-> {}, runs |-> 0,
           startedAt |-> 0, fetchedAt |-> 0]
SysIdle ==
    /\ inFlightRequests = <<>>
    /\ queues = NoJobs
    /\ activeJobs = {}
    /\ failedJobs = <<>>
    /\ jobLog = <<>>
    /\ failedFileDeletions = <<>>
    /\ gc = GcIdle

\* the application around the storage pipeline at rest: the default provider,
\* no links, no requests, no jobs
AppIdle ==
    /\ provider = "local"
    /\ links = <<>>
    /\ storage = {}
    /\ clock = 0
    /\ reqs = <<>>
    /\ jobs = <<>>
    /\ idempotencyCache = <<>>
    /\ SysIdle

IdleWrite == [pc |-> "idle"]
IdleRead  == [pc |-> "idle"]
NoObject  == [written |-> FALSE]
StoreIdle ==
    /\ fileExists = FALSE
    /\ fileBytes = <<>>
    /\ obj = NoObject
    /\ wr = IdleWrite
    /\ rd = IdleRead

WriteRunning == wr.pc \in {"piping", "flushing", "failed"}
ReadRunning  == rd.pc = "streaming"

\* saveLocalStream up to the pipeline: hash, nonce, cipher, the validator's and
\* the containerizer's variables, and the write stream opened on the file
SaveStart(input, n) ==
    /\ ~WriteRunning /\ rd.pc = "idle"
    /\ IF ~CipherInitOk(thisKey(encryptionKeys), RandomBytes(n))
       THEN /\ wr' = [pc |-> "rejected", input |-> input, error |-> "createCipheriv"]
            /\ UNCHANGED <<fileExists, fileBytes, obj>>
       ELSE /\ wr' = [pc |-> "piping", input |-> input, rest |-> input,
                     hashed |-> <<>>, iv |-> RandomBytes(n), key |-> thisKey(encryptionKeys),
                     isValidated |-> FALSE, magicBuffer |-> <<>>, validationError |-> FALSE,
                     ivPushed |-> FALSE, ct |-> <<>>, sink |-> <<>>, err |-> "none"]
            /\ fileExists' = TRUE
            /\ fileBytes' = <<>>
            /\ obj' = [written |-> TRUE, plain |-> input, key |-> encryptionKeys[1],
                       tampered |-> FALSE, everHadBytes |-> FALSE]
    /\ UNCHANGED <<rd, cfgVars, tokenVars, appVars>>

\* The source delivers its next n bytes: validator.transform, cipher,
\* containerizer.transform; what the containerizer pushes waits in the write
\* stream.
ValidatorFails(magic) == Len(magic) >= MAGIC_CHECK_SIZE /\ validateBuffer(magic) = NoExt
Chunk(n) ==
    LET chunk == SubSeq(wr.rest, 1, n)
        magic == IF wr.isValidated THEN wr.magicBuffer ELSE wr.magicBuffer \o chunk
        fails == ~wr.isValidated /\ ValidatorFails(magic)
        enc   == GcmEncryptBytes(wr.key, wr.iv, chunk, Len(wr.ct))
    IN  /\ wr.pc = "piping"
        /\ wr' = IF fails
                THEN [wr EXCEPT !.pc = "failed", !.hashed = @ \o chunk, !.magicBuffer = magic,
                               !.validationError = TRUE, !.err = "signature"]
                ELSE [wr EXCEPT !.rest = SubSeq(@, n + 1, Len(@)),
                               !.hashed = @ \o chunk,
                               !.magicBuffer = magic,
                               !.isValidated = @ \/ Len(magic) >= MAGIC_CHECK_SIZE,
                               !.ct = @ \o enc,
                               !.ivPushed = TRUE,
                               !.sink = @ \o (IF wr.ivPushed THEN <<>> ELSE wr.iv) \o enc]
        /\ UNCHANGED <<fileExists, fileBytes, obj, rd, cfgVars, tokenVars, appVars>>

\* the write stream writes what it holds to the file
SinkWrite ==
    /\ WriteRunning
    /\ wr.sink # <<>>
    /\ fileBytes' = fileBytes \o wr.sink
    /\ wr' = [wr EXCEPT !.sink = <<>>]
    /\ obj' = [obj EXCEPT !.everHadBytes = TRUE]
    /\ UNCHANGED <<fileExists, rd, cfgVars, tokenVars, appVars>>

\* a flush hook that pushes the tag only
End_tagOnly ==
    /\ wr.pc = "piping"
    /\ wr.rest = <<>>
    /\ wr' = [wr EXCEPT !.pc = "flushing",
                      !.sink = @ \o GcmTag(wr.key, wr.iv, wr.ct)]
    /\ UNCHANGED <<fileExists, fileBytes, obj, rd, cfgVars, tokenVars, appVars>>

\* the source ends: containerizer.flush pushes the nonce if no chunk came, and
\* the tag
End ==
    /\ wr.pc = "piping"
    /\ wr.rest = <<>>
    /\ wr' = [wr EXCEPT !.pc = "flushing",
                      !.ivPushed = TRUE,
                      !.sink = @ \o (IF wr.ivPushed THEN <<>> ELSE wr.iv)
                                 \o GcmTag(wr.key, wr.iv, wr.ct)]
    /\ UNCHANGED <<fileExists, fileBytes, obj, rd, cfgVars, tokenVars, appVars>>

\* the pipeline is done: return { checksum, isEncrypted }
Finish ==
    /\ wr.pc = "flushing"
    /\ wr.sink = <<>>
    /\ wr' = [pc |-> "resolved", input |-> wr.input, checksum |-> Sha256(wr.hashed),
              err |-> wr.err]
    /\ UNCHANGED <<fileExists, fileBytes, obj, rd, cfgVars, tokenVars, appVars>>

\* a catch block that rethrows and leaves the file where it is
Cleanup_leavesFile ==
    /\ wr.pc = "failed"
    /\ wr' = [pc |-> "rejected", input |-> wr.input,
             error |-> IF wr.validationError THEN "signature" ELSE wr.err]
    /\ UNCHANGED <<fileExists, fileBytes, obj, rd, cfgVars, tokenVars, appVars>>

\* catch: await this.delete(filename); throw validationError || err.  The
\* pipeline has settled: every stream is closed, nothing is written any more,
\* and unlink removes the file.
Cleanup ==
    /\ wr.pc = "failed"
    /\ fileExists' = FALSE
    /\ fileBytes' = <<>>
    /\ wr' = [pc |-> "rejected", input |-> wr.input,
             error |-> IF wr.validationError THEN "signature" ELSE wr.err]
    /\ UNCHANGED <<obj, rd, cfgVars, tokenVars, appVars>>

\* A stage of the pipeline fails while the call runs: the write stream gets
\* an I/O error, the cipher throws, or the source is destroyed before its end
\* (the client went away).  pipeline() destroys every stream and rejects.
StageFaults == {"sink", "cipher", "aborted"}
StageFault(kind) ==
    /\ wr.pc \in (IF kind = "sink" THEN {"piping", "flushing"} ELSE {"piping"})
    /\ wr' = [wr EXCEPT !.pc = "failed", !.err = kind]
    /\ UNCHANGED <<fileExists, fileBytes, obj, rd, cfgVars, tokenVars, appVars>>

\* getStream: what lies between the nonce and the tag, the range
\* {start: ivLength, end: tagPosition - 1} of createReadStream
CipherRegion_endInclusive(bytes) == SubSeq(bytes, ivLength + 1, Len(bytes) - tagLength + 1)
CipherRegion(bytes) == SubSeq(bytes, ivLength + 1, Len(bytes) - tagLength)
HeaderIv(bytes)  == SubSeq(bytes, 1, ivLength)
FooterTag(bytes) == SubSeq(bytes, Len(bytes) - tagLength + 1, Len(bytes))

\* how the stream returned by getStream finishes: decipher.final() in the
\* decipher's flush, with the tag given to setAuthTag
StreamOutcome_unchecked(key, iv, ct, tag) == "ended"
StreamOutcome(key, iv, ct, tag) == IF GcmVerify(key, iv, ct, tag) THEN "ended" ELSE "errored"

\* a size check that also turns away a file of exactly nonce plus tag
TooSmall_atMost(fileSize) == fileSize <= ivLength + tagLength
\* fileSize < (this.ivLength + this.tagLength)
TooSmall(fileSize) == fileSize < ivLength + tagLength

\* getStream up to its return: stat, the size check, the positioned reads of
\* nonce and tag, the decipher
GetStream ==
    /\ ~WriteRunning /\ ~ReadRunning
    /\ rd' = IF ~fileExists
             THEN [pc |-> "rejected", error |-> "ENOENT"]
             ELSE IF TooSmall(Len(fileBytes))
             THEN [pc |-> "rejected", error |-> "corrupted"]
             ELSE [pc |-> "streaming", key |-> thisKey(encryptionKeys),
                   iv |-> HeaderIv(fileBytes), tag |-> FooterTag(fileBytes),
                   content |-> CipherRegion(fileBytes), pos |-> 0, out |-> <<>>]
    /\ UNCHANGED <<fileExists, fileBytes, obj, wr, cfgVars, tokenVars, appVars>>

\* the read stream delivers the next n bytes of the range; the decipher
\* passes on what they decipher to
ReadChunk(n) ==
    /\ rd.pc = "streaming"
    /\ rd' = [rd EXCEPT !.pos = @ + n,
                        !.out = @ \o GcmDecryptBytes(rd.key, rd.iv,
                                         SubSeq(rd.content, rd.pos + 1, rd.pos + n), rd.pos)]
    /\ UNCHANGED <<fileExists, fileBytes, obj, wr, cfgVars, tokenVars, appVars>>

\* the range is read (at once when it is empty): the decipher's flush
ReadEnd ==
    /\ rd.pc = "streaming"
    /\ rd.pos = Len(rd.content)
    /\ rd' = [pc |-> StreamOutcome(rd.key, rd.iv, rd.content, rd.tag), out |-> rd.out]
    /\ UNCHANGED <<fileExists, fileBytes, obj, wr, cfgVars, tokenVars, appVars>>

\* the consumer is done with the stream, or with the rejection
Close ==
    /\ rd.pc \in {"ended", "errored", "rejected"}
    /\ rd' = IdleRead
    /\ UNCHANGED <<fileExists, fileBytes, obj, wr, cfgVars, tokenVars, appVars>>

\* One bit of the stored object changes on the disk.  The model follows one
\* disturbance per object: a changed bit, or a rotation of the keys.
FlipBit(b, h) == [b EXCEPT ![h] = FlipNibble(b[h])]
Tamper(pos, h) ==
    /\ ~WriteRunning /\ rd.pc = "idle"
    /\ wr.pc = "resolved" /\ fileExists
    /\ ~obj.tampered
    /\ obj.key = encryptionKeys[1]
    /\ fileBytes' = [fileBytes EXCEPT ![pos] = FlipBit(fileBytes[pos], h)]
    /\ obj' = [obj EXCEPT !.tampered = TRUE]
    /\ UNCHANGED <<fileExists, wr, rd, cfgVars, tokenVars, appVars>>

\* the operator rotates ENCRYPTION_KEYS and restarts the process
RestartStore(keys) ==
    /\ ~WriteRunning /\ rd.pc = "idle"
    /\ obj.written => ~obj.tampered
    /\ encryptionKeys' = keys
    /\ UNCHANGED <<encryptionIv, fileExists, fileBytes, obj, wr, rd, tokenVars, appVars>>

(***************************************************************************)
(* What a client can send to decrypt: a token as issued, or an issued      *)
(* token changed in one place.                                             *)
(***************************************************************************)
\* a hex digit that has an upper-case form: a letter a-f
IsLetterDigit(c) == IsHex(c) /\ (IsDataNibble(c.n) => c.n[1] >= 10)

CharKinds  == {"upper", "subst", "nonhex"}
FieldKinds == {"trunc", "append", "garbage"}
WholeKinds == {"none", "fewer", "more", "notString"}
ChangeChar(c, kind) ==
    CASE kind = "upper"  -> [c EXCEPT !.up = TRUE]
      [] kind = "subst"  -> [c EXCEPT !.n = FlipNibble(c.n)]
      [] kind = "nonhex" -> NonHexChar
ChangeField(f, op) ==
    CASE op.kind \in CharKinds -> [f EXCEPT ![op.pos] = ChangeChar(f[op.pos], op.kind)]
      [] op.kind = "trunc"     -> SubSeq(f, 1, op.pos)
      [] op.kind = "append"    -> f \o <<HexChar(<<0>>)>>
      [] op.kind = "garbage"   -> f \o <<NonHexChar, NonHexChar>>

Op(kind, field, pos) == [kind |-> kind, field |-> field, pos |-> pos]
\* every character of the tag field, the first and the last of the others
Positions(field, f) == {i \in 1..Len(field) : f = 2 \/ i = 1 \/ i = Len(field)}
CharOps(field, f) ==
    {Op(k, f, i) : k \in {"subst", "nonhex"}, i \in Positions(field, f)}
    \cup {Op("upper", f, i) : i \in {j \in Positions(field, f) : IsLetterDigit(field[j])}}
    \cup {Op("trunc", f, i - 1) : i \in Positions(field, f)}
    \cup {Op(k, f, 0) : k \in {"append", "garbage"}}
TamperOps(token) ==
    LET parts == Split(token)
    IN  {Op(k, 0, 0) : k \in WholeKinds} \cup UNION {CharOps(parts[f], f) : f \in 1..3}

Join3(parts) == TokenString(parts[1], parts[2], parts[3])
Tampered(token, op) ==
    LET parts == Split(token)
    IN  CASE op.kind = "none"      -> StringArg(token)
          [] op.kind = "notString" -> NotAString
          [] op.kind = "fewer"     -> StringArg(parts[1] \o <<Colon>> \o parts[2])
          [] op.kind = "more"      -> StringArg(token \o <<Colon>> \o toHex(<<B(0)>>))
          [] OTHER -> StringArg(Join3([parts EXCEPT ![op.field] = ChangeField(parts[op.field], op)]))

(***************************************************************************)
(* The token codec as a state machine.                                     *)
(***************************************************************************)
NoCall == [called |-> FALSE]

\* the keyrings a restart of the process can bring: a new key in front of
\* the old ones, or the oldest key removed
Present(keys) == {keys[i] : i \in 1..Len(keys)}
Rotations(keys) ==
    {<<k>> \o keys : k \in {x \in KeyStrings \ Present(keys) : Len(keys) < MaxKeys}}
    \cup {SubSeq(keys, 1, Len(keys) - 1) : x \in {y \in {1} : Len(keys) > 1}}

TokenInit ==
    /\ encryptionKeys \in {<<k>> : k \in KeyStrings}
    /\ encryptionIv \in IvStrings
    /\ issued = {}
    /\ dec = NoCall
    /\ StoreIdle
    /\ AppIdle

\* a request handler renders a link: encrypt({id, exp})
Encrypt(p) ==
    LET r == encrypt(p, encryptionKeys, encryptionIv)
    IN  /\ ~dec.called
        /\ Cardinality(issued) < MaxIssued
        /\ issued' = IF r.threw THEN issued
                     ELSE issued \cup {[token |-> r.token, payload |-> p, key |-> encryptionKeys[1]]}
        /\ dec' = NoCall
        /\ UNCHANGED <<cfgVars, storeVars, appVars>>

\* processDownload: decrypt(req.params.token)
Decrypt(t, op) ==
    /\ ~dec.called
    /\ dec' = [called |-> TRUE, of |-> [payload |-> t.payload, key |-> t.key], op |-> op,
               result |-> decrypt(Tampered(t.token, op), encryptionKeys)]
    /\ UNCHANGED <<issued, cfgVars, storeVars, appVars>>

\* the request that called decrypt is answered
Respond ==
    /\ dec.called
    /\ dec' = NoCall
    /\ UNCHANGED <<issued, cfgVars, storeVars, appVars>>

\* the operator rotates ENCRYPTION_KEYS and restarts the process
Restart(keys) ==
    /\ ~dec.called
    /\ encryptionKeys' = keys
    /\ dec' = NoCall
    /\ UNCHANGED <<encryptionIv, issued, storeVars, appVars>>

\* the inputs of the operations
IssueToken == ~dec.called /\ \E p \in Payloads : Encrypt(p)
Download ==
    ~dec.called /\ \E t \in issued : \E op \in TamperOps(t.token) : Decrypt(t, op)
RotateKeys == \E keys \in Rotations(encryptionKeys) : Restart(keys)

TokenNext ==
    \/ IssueToken
    \/ Download
    \/ Respond
    \/ RotateKeys

SpecToken == TokenInit /\ [][TokenNext]_vars

StoreInit ==
    /\ encryptionKeys \in {<<k>> : k \in KeyStrings}
    /\ encryptionIv = 1
    /\ issued = {}
    /\ dec = NoCall
    /\ StoreIdle
    /\ AppIdle

\* the inputs of the operations
Upload ==
    ~WriteRunning /\ rd.pc = "idle"
        /\ \E input \in Uploads : \E n \in 1..NumNonces : SaveStart(input, n)
SourceData == wr.pc = "piping" /\ \E n \in 1..Len(wr.rest) : Chunk(n)
RangeData  == rd.pc = "streaming" /\ \E n \in 1..(Len(rd.content) - rd.pos) : ReadChunk(n)
DiskFault ==
    wr.pc = "resolved" /\ rd.pc = "idle"
        /\ \E pos \in 1..Len(fileBytes) : \E h \in 1..2 : Tamper(pos, h)
RotateStoreKeys == \E keys \in Rotations(encryptionKeys) : RestartStore(keys)

StoreNext ==
    \/ Upload
    \/ SourceData
    \/ SinkWrite
    \/ End
    \/ Finish
    \/ Cleanup
    \/ GetStream
    \/ RangeData
    \/ ReadEnd
    \/ Close
    \/ DiskFault
    \/ RotateStoreKeys

SpecStore == StoreInit /\ [][StoreNext]_vars

(***************************************************************************)
(* getStream statement by statement, with the file handle of its           *)
(* positioned reads: rd.fd is "none" before fsPromises.open, then "open",   *)
(* then "closed".                                                          *)
(***************************************************************************)
\* the object saveLocalStream stores for `plain`
StoredObject(key, iv, plain) ==
    LET ct == GcmEncryptBytes(key, iv, plain, 0)
    IN  iv \o ct \o GcmTag(key, iv, ct)
\* a key string createDecipheriv cannot use: 64 characters that are not hex
UnusableKey == [id |-> 0, len |-> HEX_KEY_LENGTH, hex |-> FALSE]
\* files found in the upload directory: stored objects, whole or cut short
FilesOnDisk ==
    LET whole == {StoredObject(_parseKey(KeyString(1)), RandomBytes(1), u) :
                     u \in {v \in Uploads : v = <<>> \/ HasAcceptedSignature(v)}}
    IN  UNION {{SubSeq(f, 1, n) : n \in 0..Len(f)} : f \in whole}

GsRejected(error, fd) == [pc |-> "rejected", error |-> error, fd |-> fd]

\* fsPromises.stat and the size check
GsStat ==
    /\ rd.pc = "idle"
    /\ rd' = IF ~fileExists THEN GsRejected("ENOENT", "none")
             ELSE IF TooSmall(Len(fileBytes)) THEN GsRejected("corrupted", "none")
             ELSE [pc |-> "open", fd |-> "none", fileSize |-> Len(fileBytes)]
    /\ UNCHANGED <<fileExists, fileBytes, obj, wr, cfgVars, tokenVars, appVars>>

\* fsPromises.open(filePath, 'r'), before the try block
GsOpen(ok) ==
    /\ rd.pc = "open"
    /\ rd' = IF ok THEN [rd EXCEPT !.pc = "readIv", !.fd = "open"]
             ELSE GsRejected("open", "none")
    /\ UNCHANGED <<fileExists, fileBytes, obj, wr, cfgVars, tokenVars, appVars>>

\* fd.read(iv, 0, ivLength, 0); a failed read leaves the try block through
\* finally
GsReadIv(ok) ==
    /\ rd.pc = "readIv"
    /\ rd' = IF ok
             THEN [pc |-> "readTag", fd |-> rd.fd, fileSize |-> rd.fileSize,
                   iv |-> HeaderIv(fileBytes)]
             ELSE [pc |-> "finally", fd |-> rd.fd, then |-> GsRejected("read", rd.fd)]
    /\ UNCHANGED <<fileExists, fileBytes, obj, wr, cfgVars, tokenVars, appVars>>

\* fd.read(tag, 0, tagLength, fileSize - tagLength)
GsReadTag(ok) ==
    /\ rd.pc = "readTag"
    /\ rd' = IF ok
             THEN [pc |-> "decipher", fd |-> rd.fd, fileSize |-> rd.fileSize, iv |-> rd.iv,
                   tag |-> SubSeq(fileBytes, rd.fileSize - tagLength + 1, rd.fileSize)]
             ELSE [pc |-> "finally", fd |-> rd.fd, then |-> GsRejected("read", rd.fd)]
    /\ UNCHANGED <<fileExists, fileBytes, obj, wr, cfgVars, tokenVars, appVars>>

\* createDecipheriv, setAuthTag and the stream that is to be returned
GsDecipher ==
    /\ rd.pc = "decipher"
    /\ rd' = [pc |-> "finally", fd |-> rd.fd,
              then |-> IF ~CipherInitOk(thisKey(encryptionKeys), rd.iv)
                       THEN GsRejected("createDecipheriv", rd.fd)
                       ELSE [pc |-> "streaming", key |-> thisKey(encryptionKeys),
                             iv |-> rd.iv, tag |-> rd.tag,
                             content |-> SubSeq(fileBytes, ivLength + 1,
                                                rd.fileSize - tagLength),
                             pos |-> 0, out |-> <<>>, fd |-> rd.fd]]
    /\ UNCHANGED <<fileExists, fileBytes, obj, wr, cfgVars, tokenVars, appVars>>

\* a finally block that does not close the handle
GsFinally_leavesOpen ==
    /\ rd.pc = "finally"
    /\ rd' = rd.then
    /\ UNCHANGED <<fileExists, fileBytes, obj, wr, cfgVars, tokenVars, appVars>>

\* finally { await fd.close(); }, then getStream returns or rejects
GsFinally ==
    /\ rd.pc = "finally"
    /\ rd' = [rd.then EXCEPT !.fd = "closed"]
    /\ UNCHANGED <<fileExists, fileBytes, obj, wr, cfgVars, tokenVars, appVars>>

GetStreamInit ==
    /\ encryptionKeys \in {<<k>> : k \in KeyStrings \cup {UnusableKey}}
    /\ encryptionIv = 1
    /\ issued = {}
    /\ dec = NoCall
    /\ fileExists \in BOOLEAN
    /\ fileBytes \in (IF fileExists THEN FilesOnDisk ELSE {<<>>})
    /\ obj = NoObject
    /\ wr = IdleWrite
    /\ rd = IdleRead
    /\ AppIdle

OpenHandle == rd.pc = "open" /\ \E ok \in BOOLEAN : GsOpen(ok)
PositionedReads ==
    rd.pc \in {"readIv", "readTag"} /\ \E ok \in BOOLEAN : GsReadIv(ok) \/ GsReadTag(ok)
GetStreamNext ==
    \/ GsStat
    \/ OpenHandle
    \/ PositionedReads
    \/ GsDecipher
    \/ GsFinally
    \/ RangeData
    \/ ReadEnd
    \/ Close

SpecGetStream == GetStreamInit /\ [][GetStreamNext]_vars

(***************************************************************************)
(* Key strings of any shape the configuration accepts, used by the token   *)
(* codec and by the local storage strategy.                                *)
(***************************************************************************)
PassphraseLen == 40   \* characters of a passphrase longer than a key
\* a passphrase of 40 characters: ENCRYPTION_KEYS asks for 32 or more
PassphraseKey == [id |-> NumKeyStrings + 1, len |-> PassphraseLen, hex |-> FALSE]
AnyKeyStrings == KeyStrings \cup {PassphraseKey}

KeysInit ==
    /\ encryptionKeys \in {<<k>> : k \in AnyKeyStrings}
    /\ encryptionIv \in IvStrings
    /\ issued = {}
    /\ dec = NoCall
    /\ StoreIdle
    /\ AppIdle

\* a token as issued comes back
DownloadIssued ==
    ~dec.called /\ \E t \in issued : Decrypt(t, Op("none", 0, 0))
\* the operator puts another key string in front and restarts the process
ConfigureKey ==
    /\ Len(encryptionKeys) < MaxKeys
    /\ \E k \in AnyKeyStrings \ Present(encryptionKeys) : Restart(<<k>> \o encryptionKeys)
\* The codec and the store share nothing but the key strings: a behaviour
\* uses the keys for tokens or for an object.
TokenUnderKeys  == wr.pc = "idle" /\ IssueToken
ObjectUnderKeys == issued = {} /\ Upload
KeysNext ==
    \/ TokenUnderKeys
    \/ DownloadIssued
    \/ Respond
    \/ ConfigureKey
    \/ ObjectUnderKeys

SpecKeys == KeysInit /\ [][KeysNext]_vars

(***************************************************************************)
(* Uploads through the application server: the upload-local route and the  *)
(* storage strategy chosen by config.storage.provider.                     *)
(***************************************************************************)
\* STORAGE_PROVIDER: z.enum(['local', 's3', 'azure'])
Providers == {"local", "s3", "azure"}
\* strategies[config.storage.provider] || LocalStorageStrategy
StrategyClass(p) == IF p \in {"s3", "azure"} THEN p ELSE "local"

\* a strategy table in which every provider runs the local pipeline
saveLocalStream_everyProvider(input, n) == SaveStart(input, n)

\* provider.saveLocalStream(inputStream, ...): the local strategy runs the
\* pipeline; S3StorageStrategy and AzureStorageStrategy throw at once,
\* leaving the input stream as it was given
saveLocalStream(input, n) ==
    IF StrategyClass(provider) = "local"
    THEN SaveStart(input, n)
    ELSE /\ ~WriteRunning /\ rd.pc = "idle"
         /\ wr' = [pc |-> "rejected", input |-> input, rest |-> input,
                   error |-> "direct upload"]
         /\ UNCHANGED <<fileExists, fileBytes, obj, rd, cfgVars, tokenVars, appVars>>

NotFound == 404
\* POST /api/upload-local: the provider guard, then uploadLocal ->
\* handleLocalUpload -> storageService.saveLocalStream
RouteUploadLocal(input, n) ==
    IF provider # "local"
    THEN /\ Len(reqs) < MaxRequests
         /\ reqs' = Append(reqs, [route |-> "upload-local", status |-> NotFound])
         /\ UNCHANGED <<provider, links, storage, clock, jobs, idempotencyCache,
                        storeVars, cfgVars, tokenVars, sysVars>>
    ELSE saveLocalStream(input, n)

UploadInit ==
    /\ encryptionKeys \in {<<k>> : k \in KeyStrings}
    /\ encryptionIv = 1
    /\ issued = {}
    /\ dec = NoCall
    /\ StoreIdle
    /\ provider \in Providers
    /\ links = <<>>
    /\ storage = {}
    /\ clock = 0
    /\ reqs = <<>>
    /\ jobs = <<>>
    /\ idempotencyCache = <<>>
    /\ SysIdle

\* a request to the route, and a call of the strategy's method by itself
PostUploadLocal ==
    ~WriteRunning /\ \E input \in Uploads : \E n \in 1..NumNonces : RouteUploadLocal(input, n)
CallSaveLocalStream ==
    ~WriteRunning /\ \E input \in Uploads : \E n \in 1..NumNonces : saveLocalStream(input, n)
UploadNext ==
    \/ PostUploadLocal
    \/ CallSaveLocalStream
    \/ SourceData
    \/ SinkWrite
    \/ End
    \/ Finish
    \/ Cleanup

SpecUpload == UploadInit /\ [][UploadNext]_vars

(***************************************************************************)
(* Links and downloads: the links table, processDownload step by step (a   *)
(* step ends where the handler awaits), and the burn_deletion job.         *)
(***************************************************************************)
\* a row of the links table; null is <<>>, a time t is <<t>>
LinkRow(filename, expires_at, burn_after_read) ==
    [filename |-> filename, expires_at |-> expires_at, deleted_at |-> <<>>,
     burn_after_read |-> burn_after_read, download_count |-> 0, created_by |-> <<>>,
     password_hash |-> <<>>, has_landing_page |-> FALSE, file_checksum |-> <<>>]
Expiries == {<<>>} \cup {<<t>> : t \in 1..MaxExp}

\* LinkRepository._applyScope: no filter for a userId that is null
_applyScope(row, userId) == userId = <<>> \/ row.created_by = userId
\* LinkRepository.findById / findByIdIncludingDeleted: the row, or nothing
findByIdIncludingDeleted(id, userId) ==
    IF id \in DOMAIN links /\ _applyScope(links[id], userId) THEN <<links[id]>> ELSE <<>>
findById(id, userId) ==
    IF id \in DOMAIN links /\ links[id].deleted_at = <<>> /\ _applyScope(links[id], userId)
    THEN <<links[id]>> ELSE <<>>
\* expires_at && expires_at < Date.now()
IsExpired(expires_at, now) == expires_at # <<>> /\ expires_at[1] < now
\* LinkRepository.hardDelete
WithoutLink(id) == [i \in DOMAIN links \ {id} |-> links[i]]

Found     == 302
Forbidden == 403
Gone      == 410
Ok        == 200
Answered(r, status) == [reqs[r] EXCEPT !.pc = "done", !.status = status]

\* a client follows a download URL; auth holds the ids of the links whose
\* auth_<id> flag its session carries
DlRequestFrom(token, auth) ==
    /\ Len(reqs) < MaxRequests
    /\ reqs' = Append(reqs, [route |-> "download", pc |-> "start", token |-> token,
                             auth |-> auth,
                             payload |-> NoPayload, link |-> <<>>, status |-> 0,
                             served |-> FALSE, expiredWhenServed |-> FALSE])
    /\ UNCHANGED <<provider, links, storage, clock, jobs, idempotencyCache,
                   storeVars, cfgVars, tokenVars, sysVars>>
\* a client follows a download URL it was given, its session without a flag
DlRequest(t) == DlRequestFrom(t.token, {})

\* processDownload: decrypt the token, check the payload and its exp
DlDecrypt(r) ==
    LET payload == decrypt(StringArg(reqs[r].token), encryptionKeys)
    IN  /\ reqs[r].pc = "start"
        /\ reqs' = [reqs EXCEPT ![r] =
               IF payload.kind # "payload" \/ payload.value.id = 0 THEN Answered(r, Forbidden)
               ELSE IF IsExpired(payload.value.exp, clock) THEN Answered(r, Gone)
               ELSE [@ EXCEPT !.pc = "fetch", !.payload = payload.value]]
        /\ UNCHANGED <<provider, links, storage, clock, jobs, idempotencyCache,
                       storeVars, cfgVars, tokenVars, sysVars>>

\* linkService.getLinkByIdForDownload(payload.id): findById, incrementCounter
DlFetch(r) ==
    LET found == findById(reqs[r].payload.id, <<>>)
    IN  /\ reqs[r].pc = "fetch"
        /\ IF found = <<>>
           THEN /\ reqs' = [reqs EXCEPT ![r] = Answered(r, NotFound)]
                /\ links' = links
           ELSE /\ reqs' = [reqs EXCEPT ![r] = [@ EXCEPT !.pc = "serve", !.link = found]]
                /\ links' = [links EXCEPT ![reqs[r].payload.id].download_count = @ + 1]
        /\ UNCHANGED <<provider, storage, clock, jobs, idempotencyCache,
                       storeVars, cfgVars, tokenVars, sysVars>>

\* link.password_hash && !req.session[`auth_${link.id}`]
Authorized_always(link, id, auth) == TRUE
Authorized(link, id, auth) == link.password_hash = <<>> \/ id \in auth

\* the password check: a protected link without the session's flag is sent
\* to its landing page, or answered 403 when it has none; then
\* storageService.getStream(link.filename) and the stream piped to the
\* response; a missing file is answered 404
DlServe(r) ==
    LET link == reqs[r].link[1]
        id   == reqs[r].payload.id
    IN  /\ reqs[r].pc = "serve"
        /\ reqs' = [reqs EXCEPT ![r] =
               IF ~Authorized(link, id, reqs[r].auth)
               THEN Answered(r, IF link.has_landing_page THEN Found ELSE Forbidden)
               ELSE IF link.filename \notin storage THEN Answered(r, NotFound)
               ELSE [@ EXCEPT !.pc = "burn", !.served = TRUE,
                              !.expiredWhenServed =
                                  id \in DOMAIN links /\ IsExpired(links[id].expires_at, clock)]]
        /\ UNCHANGED <<provider, links, storage, clock, jobs, idempotencyCache,
                       storeVars, cfgVars, tokenVars, sysVars>>

\* if (link.burn_after_read) jobQueue.addJob('burn_deletion', ...)
DlBurn(r) ==
    LET link == reqs[r].link[1]
    IN  /\ reqs[r].pc = "burn"
        /\ reqs' = [reqs EXCEPT ![r] = Answered(r, Ok)]
        /\ jobs' = IF link.burn_after_read
                   THEN Append(jobs, [type |-> "burn_deletion", linkId |-> reqs[r].payload.id,
                                      pc |-> "queued"])
                   ELSE jobs
        /\ UNCHANGED <<provider, links, storage, clock, idempotencyCache,
                       storeVars, cfgVars, tokenVars, sysVars>>

\* the burn_deletion handler, permanentlyDeleteLink: the row is looked up and
\* the file deleted from storage; a link that is gone fails the job
BurnDeleteFile ==
    LET job   == jobs[1]
        found == findByIdIncludingDeleted(job.linkId, <<>>)
    IN  /\ jobs # <<>>
        /\ job.pc = "queued"
        /\ IF found = <<>>
           THEN jobs' = Tail(jobs) /\ storage' = storage
           ELSE /\ storage' = storage \ {found[1].filename}
                /\ jobs' = [jobs EXCEPT ![1].pc = "row"]
        /\ UNCHANGED <<provider, links, clock, reqs, idempotencyCache,
                       storeVars, cfgVars, tokenVars, sysVars>>
\* permanentlyDeleteLink: linkRepository.hardDelete(id)
BurnDeleteRow ==
    /\ jobs # <<>>
    /\ jobs[1].pc = "row"
    /\ links' = WithoutLink(jobs[1].linkId)
    /\ jobs' = Tail(jobs)
    /\ UNCHANGED <<provider, storage, clock, reqs, idempotencyCache,
                   storeVars, cfgVars, tokenVars, sysVars>>

\* linkService.updateLink without a new file: expiry (undefined leaves it)
\* and the burn flag
Undefined == <<0, 0>>
UpdateLink(id, expiryTimestamp, burnAfterRead) ==
    /\ findById(id, <<>>) # <<>>
    /\ links' = [links EXCEPT ![id] =
           [@ EXCEPT !.burn_after_read = burnAfterRead,
                     !.expires_at = IF expiryTimestamp = Undefined THEN @ ELSE expiryTimestamp]]
    /\ UNCHANGED <<provider, storage, clock, jobs, idempotencyCache,
                   storeVars, cfgVars, tokenVars, sysVars>>

\* time passes between requests
Tick ==
    /\ clock < MaxClock
    /\ \A r \in 1..Len(reqs) : reqs[r].pc = "done"
    /\ clock' = clock + 1
    /\ UNCHANGED <<provider, links, storage, reqs, jobs, idempotencyCache,
                   storeVars, cfgVars, tokenVars, sysVars>>

DownloadInit ==
    /\ encryptionKeys = <<KeyString(1)>>
    /\ encryptionIv = 1
    /\ issued = {}
    /\ dec = NoCall
    /\ StoreIdle
    /\ provider = "local"
    /\ links \in {<<LinkRow(1, e, b)>> : e \in Expiries, b \in BOOLEAN}
    /\ storage = {1}
    /\ clock = 0
    /\ reqs = <<>>
    /\ jobs = <<>>
    /\ idempotencyCache = <<>>
    /\ SysIdle

\* LinkPresenter: the direct download URL of a link carries
\* encrypt({id, exp: link.expires_at})
ShowLink ==
    \E id \in DOMAIN links :
        links[id].deleted_at = <<>> /\ Encrypt([id |-> id, exp |-> links[id].expires_at])
GetDownload == Len(reqs) < MaxRequests /\ \E t \in issued : DlRequest(t)
ProcessDownload ==
    \E r \in 1..Len(reqs) : DlDecrypt(r) \/ DlFetch(r) \/ DlServe(r) \/ DlBurn(r)
BurnDeletion == BurnDeleteFile \/ BurnDeleteRow
EditLink ==
    \E id \in DOMAIN links : \E e \in Expiries \cup {Undefined} : \E b \in BOOLEAN :
        UpdateLink(id, e, b) /\ UNCHANGED reqs
DownloadNext ==
    \/ ShowLink
    \/ GetDownload
    \/ ProcessDownload
    \/ BurnDeletion
    \/ EditLink
    \/ Tick

SpecDownload == DownloadInit /\ [][DownloadNext]_vars

(***************************************************************************)
(* The admin API on links: sessions, the controllers of create, update,    *)
(* soft delete, restore and permanent delete, and the batch jobs.  reqs is *)
(* the log of the operations with the session that asked and the answer.   *)
(***************************************************************************)
Created == 201
Sessions ==
    {[userId |-> u, role |-> "user"] : u \in 1..MaxUsers}
        \cup {[userId |-> MaxUsers + 1, role |-> "admin"]}
\* const userId = session.role === 'admin' ? null : session.userId
ScopedUserId(session) == IF session.role = "admin" THEN <<>> ELSE <<session.userId>>
getLinkById(id, session) == findById(id, ScopedUserId(session))
getLinkByIdIncludingDeleted(id, session) == findByIdIncludingDeleted(id, ScopedUserId(session))

Logged(route, session, id, status) ==
    reqs' = Append(reqs, [route |-> route, session |-> session, id |-> id, status |-> status])
AdminRest == <<provider, clock, idempotencyCache, storeVars, cfgVars, tokenVars, sysVars>>
\* uuidv4(): an id no link had before
NewLinkId == 1 + Cardinality({r \in 1..Len(reqs) : reqs[r].route = "createLink"})

\* POST /admin/links: linkService.createLink stores newLink
CreateLink(session) ==
    LET id == NewLinkId
    IN  /\ id <= MaxId
        /\ links' = [i \in DOMAIN links \cup {id} |->
                        IF i = id THEN LinkRow(id, <<>>, FALSE) ELSE links[i]]
        /\ storage' = storage \cup {id}
        /\ Logged("createLink", session, id, Created)
        /\ UNCHANGED <<jobs, AdminRest>>

\* POST /admin/links/edit/:id: the controller hands the id to
\* linkService.updateLink, which looks the link up with findById(id)
PostLinksEdit(session, id, expiryTimestamp, burnAfterRead) ==
    \/ /\ findById(id, <<>>) = <<>>
       /\ Logged("updateLink", session, id, NotFound)
       /\ UNCHANGED <<links, storage, jobs, AdminRest>>
    \/ /\ UpdateLink(id, expiryTimestamp, burnAfterRead)
       /\ Logged("updateLink", session, id, Ok)

\* linkRepository.delete / restore / hardDelete, and the file of a hard delete
SoftDeleted(id) == [links EXCEPT ![id].deleted_at = <<clock>>]
Restored(id)    == [links EXCEPT ![id].deleted_at = <<>>]

\* one scoped operation, from a controller or from a batch job handler: the
\* scoped lookup throws NotFoundError, otherwise the service function runs
ScopedOp(route, kind, session, id) ==
    LET found == IF kind = "delete" THEN getLinkById(id, session)
                 ELSE getLinkByIdIncludingDeleted(id, session)
    IN  IF found = <<>>
        THEN /\ Logged(route, session, id, NotFound)
             /\ UNCHANGED <<links, storage>>
        ELSE /\ Logged(route, session, id, Ok)
             /\ links' = CASE kind = "delete"  -> SoftDeleted(id)
                           [] kind = "restore" -> Restored(id)
                           [] OTHER            -> WithoutLink(id)
             /\ storage' = IF kind = "force" THEN storage \ {found[1].filename} ELSE storage

\* DELETE /admin/links/:id, PATCH /admin/links/:id/restore,
\* DELETE /admin/links/:id/force
DeleteLink(session, id) ==
    ScopedOp("deleteLink", "delete", session, id) /\ UNCHANGED <<jobs, AdminRest>>
RestoreLink(session, id) ==
    ScopedOp("restoreLink", "restore", session, id) /\ UNCHANGED <<jobs, AdminRest>>
HardDeleteLink(session, id) ==
    ScopedOp("hardDeleteLink", "force", session, id) /\ UNCHANGED <<jobs, AdminRest>>

\* POST /admin/links/batch/...: one job per id, carrying userId and userRole
BatchKinds == {"delete", "restore", "force"}
QueueBatch(kind, session, id) ==
    /\ jobs' = Append(jobs, [type |-> "batch", kind |-> kind, linkId |-> id,
                             userId |-> session.userId, userRole |-> session.role])
    /\ UNCHANGED <<links, storage, reqs, AdminRest>>
\* batchSoftDeleteHandler, batchRestoreHandler, batchForceDeleteHandler
BatchHandler ==
    LET job == jobs[1]
    IN  /\ jobs # <<>>
        /\ ScopedOp("batch", job.kind, [userId |-> job.userId, role |-> job.userRole],
                    job.linkId)
        /\ jobs' = Tail(jobs)
        /\ UNCHANGED AdminRest

AdminInit ==
    /\ encryptionKeys = <<KeyString(1)>>
    /\ encryptionIv = 1
    /\ issued = {}
    /\ dec = NoCall
    /\ StoreIdle
    /\ AppIdle

AdminRoom == Len(reqs) + Len(jobs) < MaxOps
PostLinks == AdminRoom /\ \E session \in Sessions : CreateLink(session)
EditLinkAs ==
    /\ AdminRoom
    /\ \E session \in Sessions : \E id \in 1..MaxId : \E e \in {Undefined, <<1>>} :
           PostLinksEdit(session, id, e, TRUE)
DeleteLinkAs  == AdminRoom /\ \E session \in Sessions : \E id \in 1..MaxId : DeleteLink(session, id)
RestoreLinkAs == AdminRoom /\ \E session \in Sessions : \E id \in 1..MaxId : RestoreLink(session, id)
HardDeleteLinkAs ==
    AdminRoom /\ \E session \in Sessions : \E id \in 1..MaxId : HardDeleteLink(session, id)
BatchAs ==
    /\ AdminRoom
    /\ jobs = <<>>
    /\ \E kind \in BatchKinds : \E session \in Sessions : \E id \in 1..MaxId :
           QueueBatch(kind, session, id)
AdminNext ==
    \/ PostLinks
    \/ EditLinkAs
    \/ DeleteLinkAs
    \/ RestoreLinkAs
    \/ HardDeleteLinkAs
    \/ BatchAs
    \/ BatchHandler

SpecAdmin == AdminInit /\ [][AdminNext]_vars


(***************************************************************************)
(* The idempotency middleware in front of a route handler.  A request is   *)
(* followed from the middleware through the handler, which awaits, to the  *)
(* wrapped res.json.  The clock counts half days: CACHE_TTL_MS is two.     *)
(***************************************************************************)
CACHE_TTL_MS == 2
BadRequest   == 400
MIN_KEY_LENGTH == 16
MAX_KEY_LENGTH == 128
\* the Idempotency-Key header: absent (<<>>), or a string of some length
IdempotencyKeys ==
    {<<>>, [id |-> 1, len |-> MIN_KEY_LENGTH - 1], [id |-> 1, len |-> MIN_KEY_LENGTH],
     [id |-> 2, len |-> MAX_KEY_LENGTH], [id |-> 2, len |-> MAX_KEY_LENGTH + 1]}
\* `${req.session.userId || 'anonymous'}:${idempotencyKey}`
scopedKey(r) == <<reqs[r].user, reqs[r].key>>
IdemRest == <<provider, links, storage, clock, jobs, storeVars, cfgVars, tokenVars, sysVars>>

\* a request to a route that the middleware wraps
IdemRequest(user, key) ==
    /\ reqs' = Append(reqs, [route |-> "idempotent", user |-> user, key |-> key, at |-> clock,
                             pc |-> "start", status |-> 0, hit |-> FALSE, handled |-> FALSE])
    /\ UNCHANGED <<idempotencyCache, IdemRest>>

\* idempotency(req, res, next) up to next()
IdemCheck(r) ==
    LET key == reqs[r].key
        sk  == scopedKey(r)
    IN  /\ reqs[r].pc = "start"
        /\ IF key = <<>>
           THEN /\ reqs' = [reqs EXCEPT ![r].pc = "handler"]
                /\ UNCHANGED idempotencyCache
           ELSE IF key.len < MIN_KEY_LENGTH \/ key.len > MAX_KEY_LENGTH
           THEN /\ reqs' = [reqs EXCEPT ![r] = Answered(r, BadRequest)]
                /\ UNCHANGED idempotencyCache
           ELSE IF sk \in DOMAIN idempotencyCache
           THEN IF clock - idempotencyCache[sk].timestamp < CACHE_TTL_MS
                THEN /\ reqs' = [reqs EXCEPT ![r] =
                            [Answered(r, idempotencyCache[sk].statusCode) EXCEPT !.hit = TRUE]]
                     /\ UNCHANGED idempotencyCache
                ELSE /\ reqs' = [reqs EXCEPT ![r].pc = "handler"]
                     /\ idempotencyCache' =
                            [k \in DOMAIN idempotencyCache \ {sk} |-> idempotencyCache[k]]
           ELSE /\ reqs' = [reqs EXCEPT ![r].pc = "handler"]
                /\ UNCHANGED idempotencyCache
        /\ UNCHANGED IdemRest

\* the wrapped handler does its work, or throws
IdemHandler(r, ok) ==
    /\ reqs[r].pc = "handler"
    /\ reqs' = [reqs EXCEPT ![r] = [@ EXCEPT !.pc = "respond", !.handled = ok,
                                             !.status = IF ok THEN Ok ELSE NotFound]]
    /\ UNCHANGED <<idempotencyCache, IdemRest>>

\* the response: the wrapped res.json caches a 2xx answer of a keyed request
IdemRespond(r) ==
    LET sk == scopedKey(r)
    IN  /\ reqs[r].pc = "respond"
        /\ reqs' = [reqs EXCEPT ![r].pc = "done"]
        /\ idempotencyCache' =
               IF reqs[r].key # <<>> /\ reqs[r].status >= 200 /\ reqs[r].status < 300
               THEN [k \in DOMAIN idempotencyCache \cup {sk} |->
                        IF k = sk THEN [statusCode |-> reqs[r].status, timestamp |-> clock]
                        ELSE idempotencyCache[k]]
               ELSE idempotencyCache
        /\ UNCHANGED IdemRest

IdempotencyInit ==
    /\ encryptionKeys = <<KeyString(1)>>
    /\ encryptionIv = 1
    /\ issued = {}
    /\ dec = NoCall
    /\ StoreIdle
    /\ AppIdle

SendRequest ==
    /\ Len(reqs) < MaxRequests
    /\ \E user \in 1..MaxUsers : \E key \in IdempotencyKeys : IdemRequest(user, key)
Middleware   == \E r \in 1..Len(reqs) : IdemCheck(r)
RouteHandler == \E r \in 1..Len(reqs) : \E ok \in BOOLEAN : IdemHandler(r, ok)
SendResponse == \E r \in 1..Len(reqs) : IdemRespond(r)
IdempotencyNext ==
    \/ SendRequest
    \/ Middleware
    \/ RouteHandler
    \/ SendResponse
    \/ Tick

SpecIdempotency == IdempotencyInit /\ [][IdempotencyNext]_vars

(***************************************************************************)
(* The request deduplication middleware.  A request is followed from the   *)
(* middleware through the downstream handler to its response; the promise  *)
(* the middleware creates for a request is the field `promise` of that     *)
(* request.  The clock counts units of which windowMs is two.              *)
(***************************************************************************)
windowMs == 2
MaxFingerprints == 2
ResponseKinds == {"json", "render", "redirect", "send", "error"}
DedupMethods  == {"POST", "PUT", "PATCH", "DELETE"}
DedupRest == <<provider, links, storage, clock, jobs, idempotencyCache,
               queues, activeJobs, failedJobs, jobLog, failedFileDeletions, gc,
               storeVars, cfgVars, tokenVars>>
WithoutEntry(fingerprint) ==
    [f \in DOMAIN inFlightRequests \ {fingerprint} |-> inFlightRequests[f]]
\* inFlightRequests.set(fingerprint, {promise: requestPromise, timestamp: Date.now()})
WithEntry(map, fingerprint, r) ==
    [f \in DOMAIN map \cup {fingerprint} |->
        IF f = fingerprint THEN [promise |-> r, timestamp |-> clock] ELSE map[f]]

\* a request with a method, a fingerprint and the kind of answer its handler gives
DedupRequest(method, fingerprint, kind) ==
    /\ reqs' = Append(reqs, [route |-> "dedup", method |-> method, fingerprint |-> fingerprint,
                             kind |-> kind, pc |-> "start", status |-> 0, body |-> 0,
                             promise |-> "none", dupOf |-> 0, ran |-> FALSE])
    /\ UNCHANGED <<inFlightRequests, DedupRest>>

\* the middleware up to `await existing.promise` or next()
DedupCheck(r) ==
    LET fp == reqs[r].fingerprint
    IN  /\ reqs[r].pc = "start"
        /\ IF reqs[r].method \notin DedupMethods
           THEN /\ reqs' = [reqs EXCEPT ![r].pc = "handler"]
                /\ UNCHANGED inFlightRequests
           ELSE IF fp \in DOMAIN inFlightRequests
                   /\ clock - inFlightRequests[fp].timestamp < windowMs
           THEN /\ reqs' = [reqs EXCEPT ![r] = [@ EXCEPT !.pc = "waiting",
                                                        !.dupOf = inFlightRequests[fp].promise]]
                /\ UNCHANGED inFlightRequests
           ELSE /\ reqs' = [reqs EXCEPT ![r] = [@ EXCEPT !.pc = "handler", !.promise = "pending"]]
                /\ inFlightRequests' = WithEntry(WithoutEntry(fp), fp, r)
        /\ UNCHANGED DedupRest

\* the duplicate resumes after `await existing.promise`: the original's
\* result is sent, or after a rejection the duplicate goes on as an original
DedupAwait(r) ==
    LET o  == reqs[r].dupOf
        fp == reqs[r].fingerprint
    IN  /\ reqs[r].pc = "waiting"
        /\ \/ /\ reqs[o].promise = "resolved"
              /\ reqs' = [reqs EXCEPT ![r] = [@ EXCEPT !.pc = "done", !.status = reqs[o].status,
                                                       !.body = reqs[o].body]]
              /\ UNCHANGED inFlightRequests
           \/ /\ reqs[o].promise = "rejected"
              /\ reqs' = [reqs EXCEPT ![r] = [@ EXCEPT !.pc = "handler", !.promise = "pending",
                                                       !.dupOf = 0]]
              /\ inFlightRequests' = WithEntry(WithoutEntry(fp), fp, r)
        /\ UNCHANGED DedupRest

\* the downstream handler runs and answers: the wrapped res.json resolves the
\* promise and removes the entry; render, redirect and send answer without
\* res.json; an error event of the response rejects the promise
DedupHandler(r, status) ==
    LET fp      == reqs[r].fingerprint
        tracked == reqs[r].promise = "pending"
        kind    == reqs[r].kind
    IN  /\ reqs[r].pc = "handler"
        /\ reqs' = [reqs EXCEPT ![r] =
               [@ EXCEPT !.ran = TRUE,
                         !.status = IF kind = "error" THEN 0 ELSE status,
                         !.body = IF kind = "error" THEN 0 ELSE r,
                         !.pc = IF tracked /\ kind \in {"render", "redirect", "send"}
                                THEN "finished" ELSE "done",
                         !.promise = IF ~tracked THEN @
                                     ELSE IF kind = "json" THEN "resolved"
                                     ELSE IF kind = "error" THEN "rejected"
                                     ELSE @]]
        /\ inFlightRequests' = IF tracked /\ kind \in {"json", "error"}
                               THEN WithoutEntry(fp) ELSE inFlightRequests
        /\ UNCHANGED DedupRest

\* res.on('finish'): a second later the entry of the fingerprint is removed
DedupFinish(r) ==
    /\ reqs[r].pc = "finished"
    /\ reqs' = [reqs EXCEPT ![r].pc = "done"]
    /\ inFlightRequests' = WithoutEntry(reqs[r].fingerprint)
    /\ UNCHANGED DedupRest

\* time passes while requests are in flight
Elapse ==
    /\ clock < MaxClock
    /\ clock' = clock + 1
    /\ UNCHANGED <<provider, links, storage, reqs, jobs, idempotencyCache, inFlightRequests,
                   queues, activeJobs, failedJobs, jobLog, failedFileDeletions, gc,
                   storeVars, cfgVars, tokenVars>>

DedupInit ==
    /\ encryptionKeys = <<KeyString(1)>>
    /\ encryptionIv = 1
    /\ issued = {}
    /\ dec = NoCall
    /\ StoreIdle
    /\ AppIdle

DedupArrive ==
    /\ Len(reqs) < MaxRequests
    /\ \E method \in {"POST", "GET"} : \E fp \in 1..MaxFingerprints : \E kind \in ResponseKinds :
           DedupRequest(method, fp, kind)
DedupMiddleware == \E r \in 1..Len(reqs) : DedupCheck(r)
DedupResume     == \E r \in 1..Len(reqs) : DedupAwait(r)
DedupDownstream == \E r \in 1..Len(reqs) : \E status \in {Ok, NotFound} : DedupHandler(r, status)
DedupFinished   == \E r \in 1..Len(reqs) : DedupFinish(r)
DedupNext ==
    \/ DedupArrive
    \/ DedupMiddleware
    \/ DedupResume
    \/ DedupDownstream
    \/ DedupFinished
    \/ Elapse

SpecDedup == DedupInit /\ [][DedupNext]_vars

(***************************************************************************)
(* The in-memory job queue.  Every action is one turn of the event loop:   *)
(* addJob, one iteration of processLoop with processJob up to its await,   *)
(* and the rest of processJob after the handler settled.                   *)
(***************************************************************************)
maxRetries        == 3
retryDelayMs      == 1000
backoffMultiplier == 2
concurrency       == 5
pollIntervalMs    == 1000
QueueNames == {"high", "normal", "low"}
\* priorities callers hand over: the names, and the number 5 that the BullMQ
\* adapter passes through unconverted when it falls back
Priorities == QueueNames \cup {"5"}
JobTypes   == {"file_deletion", "unregistered"}
jobHandlers == {"file_deletion"}
QueueRest == <<provider, links, storage, reqs, jobs, idempotencyCache, inFlightRequests,
               failedFileDeletions, gc, storeVars, cfgVars, tokenVars>>
RECURSIVE Pow(_, _)
Pow(b, e) == IF e = 0 THEN 1 ELSE b * Pow(b, e - 1)

\* the queue's collections as one value
QueueState == [queues |-> queues, activeJobs |-> activeJobs, failedJobs |-> failedJobs,
               jobLog |-> jobLog]
Becomes(st) ==
    /\ queues' = st.queues
    /\ activeJobs' = st.activeJobs
    /\ failedJobs' = st.failedJobs
    /\ jobLog' = st.jobLog

\* activeJobs.size < config.concurrency
HasCapacity_atMost(active) == Cardinality(active) <= concurrency
HasCapacity(active) == Cardinality(active) < concurrency

\* getNextJob: the first job that is due, queue by queue; <<>> for null
Due(qs, q) == {i \in 1..Len(qs[q]) : ~(qs[q][i].processAfter > clock)}
FirstDue(qs, q) == CHOOSE i \in Due(qs, q) : \A k \in Due(qs, q) : i <= k
getNextJob(qs) ==
    IF Due(qs, "high") # {} THEN <<"high", FirstDue(qs, "high")>>
    ELSE IF Due(qs, "normal") # {} THEN <<"normal", FirstDue(qs, "normal")>>
    ELSE IF Due(qs, "low") # {} THEN <<"low", FirstDue(qs, "low")>>
    ELSE <<>>
Splice(queue, i) == SubSeq(queue, 1, i - 1) \o SubSeq(queue, i + 1, Len(queue))

\* processJob up to `await handler(...)`: a job without a handler goes to
\* failedJobs, any other is marked processing and put into activeJobs
processJob(st, next) ==
    LET job == st.queues[next[1]][next[2]]
        qs  == [st.queues EXCEPT ![next[1]] = Splice(@, next[2])]
    IN  IF job.type \notin jobHandlers
        THEN [st EXCEPT !.queues = qs,
                        !.failedJobs = Append(@, [job EXCEPT !.status = "failed"])]
        ELSE [st EXCEPT !.queues = qs,
                        !.activeJobs = @ \cup {[job EXCEPT !.status = "processing"]},
                        !.jobLog = [@ EXCEPT ![job.id] =
                                       [@ EXCEPT !.runs = @ + 1, !.startedAt = clock]]]

\* processLoop from where it resumes to its next await: jobs are started
\* while there is capacity and a job is due
RECURSIVE processLoop(_)
processLoop(st) ==
    IF HasCapacity(st.activeJobs) /\ getNextJob(st.queues) # <<>>
    THEN processLoop(processJob(st, getNextJob(st.queues)))
    ELSE st

\* startProcessing ran: the first addJob starts the loop
isProcessing == DOMAIN jobLog # {}

\* addJob(jobType, data, {priority, maxRetries, delayMs}); the first call
\* starts the loop, which runs to its first await within the call
addJob(jobType, priority, retries, delayMs) ==
    LET id  == Cardinality(DOMAIN jobLog) + 1
        job == [id |-> id, type |-> jobType, priority |-> priority, maxRetries |-> retries,
                retryCount |-> 0, processAfter |-> clock + delayMs, status |-> "pending"]
        q   == IF priority \in QueueNames THEN priority ELSE "normal"
        st  == [QueueState EXCEPT
                   !.queues = [@ EXCEPT ![q] = Append(@, job)],
                   !.jobLog = [i \in DOMAIN jobLog \cup {id} |->
                                  IF i = id
                                  THEN [type |-> jobType, priority |-> priority,
                                        maxRetries |-> retries, runs |-> 0, fails |-> 0,
                                        failedAt |-> 0, startedAt |-> 0, completed |-> FALSE]
                                  ELSE jobLog[i]]]
    IN  /\ Becomes(IF isProcessing THEN st ELSE processLoop(st))
        /\ UNCHANGED <<clock, QueueRest>>

\* the loop wakes from its poll interval
ProcessLoop ==
    /\ isProcessing
    /\ processLoop(QueueState) # QueueState
    /\ Becomes(processLoop(QueueState))
    /\ UNCHANGED <<clock, QueueRest>>

\* processJob after the handler resolved
HandlerResolves(job) ==
    /\ activeJobs' = activeJobs \ {job}
    /\ jobLog' = [jobLog EXCEPT ![job.id].completed = TRUE]
    /\ UNCHANGED <<queues, failedJobs, clock, QueueRest>>

\* processJob after the handler threw: retry with backoff, or dead letter;
\* queues[job.priority].push throws for a priority that names no queue
HandlerRejects(job) ==
    LET retryCount == job.retryCount + 1
        delay      == retryDelayMs * Pow(backoffMultiplier, retryCount - 1)
        again      == [job EXCEPT !.retryCount = retryCount, !.processAfter = clock + delay,
                                  !.status = "retrying"]
    IN  /\ activeJobs' = activeJobs \ {job}
        /\ jobLog' = [jobLog EXCEPT ![job.id] = [@ EXCEPT !.fails = @ + 1, !.failedAt = clock]]
        /\ IF retryCount < job.maxRetries
           THEN /\ queues' = IF job.priority \in QueueNames
                             THEN [queues EXCEPT ![job.priority] = Append(@, again)]
                             ELSE queues
                /\ UNCHANGED failedJobs
           ELSE /\ failedJobs' = Append(failedJobs, [job EXCEPT !.retryCount = retryCount,
                                                                !.status = "failed"])
                /\ UNCHANGED queues
        /\ UNCHANGED <<clock, QueueRest>>

\* a poll interval passes
QueueElapse ==
    /\ clock < MaxPolls * pollIntervalMs
    /\ clock' = clock + pollIntervalMs
    /\ UNCHANGED <<queues, activeJobs, failedJobs, jobLog, QueueRest>>

QueueInit ==
    /\ encryptionKeys = <<KeyString(1)>>
    /\ encryptionIv = 1
    /\ issued = {}
    /\ dec = NoCall
    /\ StoreIdle
    /\ AppIdle

AddJob ==
    /\ Cardinality(DOMAIN jobLog) < MaxJobs
    /\ \E jobType \in JobTypes : \E priority \in Priorities : \E retries \in {1, maxRetries} :
       \E delayMs \in {0, pollIntervalMs} :
           addJob(jobType, priority, retries, delayMs)
HandlerSettles ==
    \E job \in activeJobs : HandlerResolves(job) \/ HandlerRejects(job)
QueueNext ==
    \/ AddJob
    \/ ProcessLoop
    \/ HandlerSettles
    \/ QueueElapse

SpecQueue == QueueInit /\ [][QueueNext]_vars

\* the queue under load: jobs with the default options
AddPlainJob ==
    /\ Cardinality(DOMAIN jobLog) < MaxLoad
    /\ addJob("file_deletion", "normal", maxRetries, 0)
\* one poll interval passes under load
LoadElapse == clock = 0 /\ QueueElapse
QueueLoadNext ==
    \/ AddPlainJob
    \/ ProcessLoop
    \/ HandlerSettles
    \/ LoadElapse

SpecQueueLoad == QueueInit /\ [][QueueLoadNext]_vars

(***************************************************************************)
(* The retry task for failed file deletions and the file_deletion job.     *)
(* The clock counts the half hours at which the task runs.                 *)
(***************************************************************************)
MAX_DELETION_RETRIES == 5
RetryAge == 2
queueVars == <<queues, activeJobs, failedJobs, jobLog>>
RetryRest == <<provider, links, reqs, idempotencyCache, inFlightRequests, queueVars, gc,
               storeVars, cfgVars, tokenVars>>
\* a row as linkService.updateLink inserts it, with the history of the row:
\* how often the task queued it, and how many retries left the file in place
FailedDeletion(storage_key, retry_count) ==
    [storage_key |-> storage_key, retry_count |-> retry_count, created_at |-> 0,
     present |-> TRUE, queued |-> 0, undeleted |-> 0]
\* .where('created_at', '<', Date.now() - 3600000).where('retry_count', '<', 5)
Retryable(row, now) ==
    row.present /\ row.created_at < now - RetryAge /\ row.retry_count < MAX_DELETION_RETRIES

\* the task of every half hour: each retryable row is handed to the job
\* queue; addJob returns a promise and does not throw
RetryTask ==
    LET now      == clock + 1
        eligible == {i \in 1..Len(failedFileDeletions) : Retryable(failedFileDeletions[i], now)}
        newJobs  == [i \in 1..Len(failedFileDeletions) |->
                        [type |-> "file_deletion", failedDeletionId |-> i,
                         storageKey |-> failedFileDeletions[i].storage_key, attempts |-> 0]]
    IN  /\ clock < MaxRuns
        /\ jobs = <<>>
        /\ clock' = now
        /\ jobs' = SelectSeq(newJobs, LAMBDA job : job.failedDeletionId \in eligible)
        /\ failedFileDeletions' =
               [i \in 1..Len(failedFileDeletions) |->
                   IF i \in eligible
                   THEN [failedFileDeletions[i] EXCEPT !.queued = @ + 1]
                   ELSE failedFileDeletions[i]]
        /\ UNCHANGED <<storage, RetryRest>>

\* the file_deletion handler: storageService.delete answers true or false
\* and does not throw; then the row is deleted, unless the database call
\* throws, which fails the job for the queue to retry or give up
FileDeletionJob(deleted, dbOk) ==
    LET job == jobs[1]
        id  == job.failedDeletionId
    IN  /\ jobs # <<>>
        /\ job.type = "file_deletion"
        /\ storage' = IF deleted THEN storage \ {job.storageKey} ELSE storage
        /\ failedFileDeletions' =
               [failedFileDeletions EXCEPT ![id] =
                   [@ EXCEPT !.present = IF dbOk THEN FALSE ELSE @,
                             !.undeleted = IF deleted \/ job.storageKey \notin storage
                                           THEN @ ELSE @ + 1]]
        /\ jobs' = IF dbOk \/ job.attempts + 1 >= maxRetries
                   THEN Tail(jobs)
                   ELSE <<[job EXCEPT !.attempts = @ + 1]>> \o Tail(jobs)
        /\ UNCHANGED <<clock, RetryRest>>

RetryInit ==
    /\ encryptionKeys = <<KeyString(1)>>
    /\ encryptionIv = 1
    /\ issued = {}
    /\ dec = NoCall
    /\ StoreIdle
    /\ provider \in Providers
    /\ links = <<>>
    /\ clock = 0
    /\ reqs = <<>>
    /\ jobs = <<>>
    /\ idempotencyCache = <<>>
    /\ inFlightRequests = <<>>
    /\ queues = NoJobs
    /\ activeJobs = {}
    /\ failedJobs = <<>>
    /\ jobLog = <<>>
    /\ gc = GcIdle
    /\ \E n \in 1..MaxFailedDeletions :
           /\ failedFileDeletions \in
                  {[i \in 1..n |-> FailedDeletion(i, c[i])] :
                      c \in [1..n -> {0, MAX_DELETION_RETRIES}]}
           /\ storage = 1..n

FileDeletion == \E deleted \in BOOLEAN : \E dbOk \in BOOLEAN : FileDeletionJob(deleted, dbOk)
RetryNext ==
    \/ RetryTask
    \/ FileDeletion

SpecRetry == RetryInit /\ [][RetryNext]_vars

(***************************************************************************)
(* The garbage collector, linkService.processCleanup, step by step (a step *)
(* ends where the run awaits), next to the operations that touch the same  *)
(* rows: soft delete, restore, the landing page and the download.  The     *)
(* clock counts days.                                                      *)
(***************************************************************************)
trashRetentionDays == 1
BATCH_SIZE        == 100
MAX_ITEMS_PER_RUN == 1000
GcRest == <<provider, reqs, idempotencyCache, inFlightRequests, queueVars,
            failedFileDeletions, storeVars, cfgVars, tokenVars>>

\* LinkRepository.findGarbage's where clause: expired, or soft-deleted before
\* the retention threshold
IsGarbage_anyTrashed(row, now, retentionThreshold) ==
    IsExpired(row.expires_at, now) \/ row.deleted_at # <<>>
IsGarbage(row, now, retentionThreshold) ==
    \/ IsExpired(row.expires_at, now)
    \/ row.deleted_at # <<>> /\ row.deleted_at[1] < retentionThreshold
GarbageIds(now, retentionThreshold) ==
    {id \in DOMAIN links : IsGarbage(links[id], now, retentionThreshold)}
\* LinkRepository.countGarbage
countGarbage(now, retentionThreshold) == Cardinality(GarbageIds(now, retentionThreshold))
\* LinkRepository.findGarbage: the garbage in creation order, offset rows
\* skipped and at most limit rows returned
findGarbage(now, retentionThreshold, limit, offset) ==
    LET garbage  == GarbageIds(now, retentionThreshold)
        rank(id) == Cardinality({g \in garbage : g <= id})
    IN  {[id |-> id, row |-> links[id]] :
            id \in {g \in garbage : offset < rank(g) /\ rank(g) <= offset + limit}}
\* LinkRepository.hardDelete for each of the ids, or deleteBatch
WithoutLinks(ids) == [i \in DOMAIN links \ ids |-> links[i]]

\* what a run removed, for the record: the row as it was selected, when the
\* run began and when the row was fetched, and whether the file went too
Purged(kind, items, removed) ==
    {[kind |-> kind, id |-> item.id, row |-> item.row, startedAt |-> gc.startedAt,
      fetchedAt |-> gc.fetchedAt, removed |-> item \in removed, run |-> gc.runs] :
        item \in items}

\* processCleanup up to the loop: the cutoff date and countGarbage; a count of
\* zero ends the run
GcBegin ==
    LET cutoffDate == clock - trashRetentionDays
        total      == countGarbage(clock, cutoffDate)
    IN  /\ gc.pc = "idle"
        /\ gc' = [gc EXCEPT !.pc = IF total = 0 THEN "idle" ELSE "fetch",
                            !.cutoffDate = cutoffDate, !.totalGarbage = total,
                            !.offset = 0, !.processedCount = 0, !.batch = {},
                            !.removed = {}, !.runs = @ + 1, !.startedAt = clock]
        /\ UNCHANGED <<links, storage, clock, jobs, GcRest>>

\* the loop's condition and findGarbage for the next batch
GcFetch ==
    LET batch == findGarbage(clock, gc.cutoffDate, BATCH_SIZE, gc.offset)
    IN  /\ gc.pc = "fetch"
        /\ gc' = IF /\ gc.processedCount < MAX_ITEMS_PER_RUN
                    /\ gc.offset < gc.totalGarbage
                    /\ batch # {}
                 THEN [gc EXCEPT !.pc = "storage", !.batch = batch, !.removed = {},
                                 !.fetchedAt = clock]
                 ELSE [gc EXCEPT !.pc = "idle", !.batch = {}]
        /\ UNCHANGED <<links, storage, clock, jobs, GcRest>>

\* the storage deletions of the batch: storageService.delete answers false
\* for the items in failing and does not throw, so .then() counts every item
\* of the batch as successful
GcStorage(failing) ==
    LET deleted == {item \in gc.batch : item.id \notin failing}
    IN  /\ gc.pc = "storage"
        /\ storage' = storage \ {item.row.filename : item \in deleted}
        /\ gc' = [gc EXCEPT !.pc = "database", !.removed = {item.id : item \in deleted},
                            !.purged = @ \cup Purged("file", deleted, deleted)]
        /\ UNCHANGED <<links, clock, jobs, GcRest>>

\* the database deletions of the successful items: deleteBatch in a
\* transaction, on its failure hardDelete one by one, and a file_deletion
\* job for the items whose row could not be deleted; then the loop's
\* bookkeeping
GcDatabase(dbFails) ==
    LET successfulDeletions == gc.batch
        failedDeletions     == IF dbFails THEN successfulDeletions ELSE {}
        gone                == successfulDeletions \ failedDeletions
        removed             == {item \in gc.batch : item.id \in gc.removed}
        Retry(item)         == [type |-> "file_deletion", storageKey |-> item.row.filename,
                                linkId |-> item.id, pc |-> "queued"]
        RECURSIVE Queued(_, _)
        Queued(queue, items) ==
            IF items = {} THEN queue
            ELSE LET item == CHOOSE i \in items : \A j \in items : i.id <= j.id
                 IN  Queued(Append(queue, Retry(item)), items \ {item})
    IN  /\ gc.pc = "database"
        /\ links' = WithoutLinks({item.id : item \in gone})
        /\ jobs' = Queued(jobs, failedDeletions)
        /\ gc' = [gc EXCEPT !.pc = IF Cardinality(gc.batch) < BATCH_SIZE THEN "idle" ELSE "fetch",
                            !.processedCount = @ + Cardinality(gc.batch),
                            !.offset = @ + BATCH_SIZE,
                            !.batch = {},
                            !.purged = @ \cup Purged("row", gone, removed)]
        /\ UNCHANGED <<storage, clock, GcRest>>

\* linkService.deleteLink and restoreLink
deleteLink(id) ==
    /\ findById(id, <<>>) # <<>>
    /\ links' = SoftDeleted(id)
    /\ UNCHANGED <<storage, clock, jobs, gc, GcRest>>
restoreLink(id) ==
    /\ findByIdIncludingDeleted(id, <<>>) # <<>>
    /\ links[id].deleted_at # <<>>
    /\ links' = Restored(id)
    /\ UNCHANGED <<storage, clock, jobs, gc, GcRest>>

\* LinkRepository.findByShortId: as findById, soft-deleted rows are not found
findByShortId(id) == findById(id, <<>>)
\* renderLandingPage: 404 for a link that is not found, else the page
renderLandingPage(id) ==
    /\ Len(reqs) < MaxRequests
    /\ reqs' = Append(reqs, [route |-> "landing", pc |-> "done", id |-> id,
                             status |-> IF findByShortId(id) = <<>> THEN NotFound ELSE Ok,
                             trashed |-> id \in DOMAIN links /\ links[id].deleted_at # <<>>])
    /\ UNCHANGED <<provider, links, storage, clock, jobs, idempotencyCache,
                   storeVars, cfgVars, tokenVars, sysVars>>

CleanupInit ==
    /\ encryptionKeys = <<KeyString(1)>>
    /\ encryptionIv = 1
    /\ issued = {}
    /\ dec = NoCall
    /\ StoreIdle
    /\ provider = "local"
    /\ \E n \in 1..MaxLinks :
        /\ links \in {[id \in 1..n |-> LinkRow(id, e[id], FALSE)] : e \in [1..n -> Expiries]}
        /\ storage = 1..n
    /\ clock = 0
    /\ reqs = <<>>
    /\ jobs = <<>>
    /\ idempotencyCache = <<>>
    /\ SysIdle

CleanupStart    == gc.runs < MaxCleanups /\ GcBegin
CleanupStorage  == \E failing \in SUBSET {item.id : item \in gc.batch} : GcStorage(failing)
CleanupDatabase == \E dbFails \in BOOLEAN : GcDatabase(dbFails)
TrashLink       == \E id \in DOMAIN links : deleteLink(id)
UntrashLink     == \E id \in DOMAIN links : restoreLink(id)
\* one visitor: one request to the landing page or one download, with one token
VisitLanding    == reqs = <<>> /\ \E id \in DOMAIN links : renderLandingPage(id)
CleanupShowLink == issued = {} /\ ShowLink
CleanupGetDownload == reqs = <<>> /\ GetDownload
CleanupNext ==
    \/ CleanupStart
    \/ GcFetch
    \/ CleanupStorage
    \/ CleanupDatabase
    \/ TrashLink
    \/ UntrashLink
    \/ VisitLanding
    \/ CleanupShowLink
    \/ CleanupGetDownload
    \/ ProcessDownload
    \/ Tick

SpecCleanup == CleanupInit /\ [][CleanupNext]_vars

\* one run of the garbage collector over a table of expired links, every
\* storage and database deletion succeeding
DrainInit ==
    /\ encryptionKeys = <<KeyString(1)>>
    /\ encryptionIv = 1
    /\ issued = {}
    /\ dec = NoCall
    /\ StoreIdle
    /\ provider = "local"
    /\ \E n \in 0..MaxGarbage :
        /\ links = [id \in 1..n |-> LinkRow(id, <<MaxExp>>, FALSE)]
        /\ storage = 1..n
    /\ clock = MaxExp + 1
    /\ reqs = <<>>
    /\ jobs = <<>>
    /\ idempotencyCache = <<>>
    /\ SysIdle

DrainStart    == gc.runs = 0 /\ GcBegin
DrainStorage  == GcStorage({})
DrainDatabase == GcDatabase(FALSE)
DrainNext ==
    \/ DrainStart
    \/ GcFetch
    \/ DrainStorage
    \/ DrainDatabase

SpecCleanupDrain == DrainInit /\ [][DrainNext]_vars

\* downloads with every kind of token and session: tokens of links that
\* exist and of one that does not, altered tokens, protected links, sessions
\* with and without the flag, links in the trash
AuthorizeInit ==
    /\ encryptionKeys = <<KeyString(1)>>
    /\ encryptionIv = 1
    /\ issued = {}
    /\ dec = NoCall
    /\ StoreIdle
    /\ provider = "local"
    /\ links \in {<<[LinkRow(1, <<>>, b) EXCEPT !.password_hash = h, !.has_landing_page = l]>> :
                      b \in BOOLEAN, h \in {<<>>, <<1>>}, l \in BOOLEAN}
    /\ storage = {1}
    /\ clock \in 0..MaxClock
    /\ reqs = <<>>
    /\ jobs = <<>>
    /\ idempotencyCache = <<>>
    /\ SysIdle

UrlKinds == {"none", "fewer", "more"}
AuthorizeGetDownload ==
    /\ reqs = <<>>
    /\ \E t \in issued : \E kind \in UrlKinds : \E auth \in SUBSET DOMAIN links :
           DlRequestFrom(Tampered(t.token, Op(kind, 0, 0)).chars, auth)
AuthorizeNext ==
    \/ IssueToken
    \/ AuthorizeGetDownload
    \/ ProcessDownload
    \/ TrashLink
    \/ UntrashLink

SpecAuthorize == AuthorizeInit /\ [][AuthorizeNext]_vars

(***************************************************************************)
(* processDownload's local-stream branch on the file of getStream: the     *)
(* stream getStream returns, pipeWithChecksumVerification and              *)
(* pipeWithErrorHandling, the .catch on the pipe, and what follows it.     *)
(***************************************************************************)
PipeInit ==
    /\ encryptionKeys \in {<<k>> : k \in KeyStrings}
    /\ encryptionIv = 1
    /\ issued = {}
    /\ dec = NoCall
    /\ fileExists = TRUE
    /\ fileBytes \in FilesOnDisk
    /\ obj = NoObject
    /\ wr = IdleWrite
    /\ rd = IdleRead
    /\ provider = "local"
    /\ links \in {<<[LinkRow(1, <<>>, b) EXCEPT !.file_checksum = c]>> :
                      b \in BOOLEAN, c \in {<<>>, <<1>>}}
    /\ storage = {1}
    /\ clock = 0
    /\ reqs = <<>>
    /\ jobs = <<>>
    /\ idempotencyCache = <<>>
    /\ SysIdle

\* res.headersSent: the first chunk written to the response sends the headers
headersSent == rd.pc \in {"streaming", "ended", "errored"} /\ rd.out # <<>>

\* a download that passed the checks of processDownload calls getStream
PipeArrive ==
    /\ reqs = <<>>
    /\ reqs' = <<[route |-> "download", pc |-> "getStream", payload |-> [id |-> 1, exp |-> <<>>],
                  link |-> <<links[1]>>, status |-> 0, pipe |-> "none", aborted |-> FALSE,
                  unhandled |-> FALSE]>>
    /\ UNCHANGED <<provider, links, storage, clock, jobs, idempotencyCache,
                   storeVars, cfgVars, tokenVars, sysVars>>

\* .catch on the pipe's promise: before the headers are sent AppError 500,
\* which the outer catch turns into NotFoundError; after them the error is
\* logged and the handler goes on to DOWNLOAD_SUCCESS and the burn branch
PipeCatch(r, aborted) ==
    IF ~headersSent
    THEN [Answered(r, NotFound) EXCEPT !.pipe = "rejected", !.aborted = aborted]
    ELSE [reqs[r] EXCEPT !.pc = "burn", !.pipe = "rejected", !.aborted = aborted]

\* await storageService.getStream(link.filename): a rejection is answered
\* 404 by the outer catch; on the stream the headers are set and the pipe's
\* listeners attached
PipeOpen(r) ==
    /\ reqs[r].pc = "getStream"
    /\ rd.pc \in {"rejected", "streaming"}
    /\ reqs' = [reqs EXCEPT ![r] = IF rd.pc = "rejected" THEN Answered(r, NotFound)
                                   ELSE [@ EXCEPT !.pc = "piping", !.pipe = "pending"]]
    /\ UNCHANGED <<provider, links, storage, clock, jobs, idempotencyCache,
                   storeVars, cfgVars, tokenVars, sysVars>>

\* the stream of getStream finishes.  Ended: the response finishes and the
\* pipe resolves.  Errored, no checksum: the decipher is the pipe's source,
\* its error listener destroys the response unless the headers are sent and
\* rejects.  Errored, with a checksum: the pipe's source is the verifier
\* (source.pipe(verifier)), pipe() forwards no error, the decipher has no
\* error listener, and the pipe stays pending
PipeSettle(r) ==
    /\ reqs[r].pc = "piping"
    /\ rd.pc \in {"ended", "errored"}
    /\ reqs' = [reqs EXCEPT ![r] =
           IF rd.pc = "ended" THEN [@ EXCEPT !.pc = "burn", !.pipe = "resolved"]
           ELSE IF reqs[r].link[1].file_checksum = <<>> THEN PipeCatch(r, ~headersSent)
           ELSE [@ EXCEPT !.pc = "stalled", !.unhandled = TRUE]]
    /\ UNCHANGED <<provider, links, storage, clock, jobs, idempotencyCache,
                   storeVars, cfgVars, tokenVars, sysVars>>

\* the pipe's timeout of 60 seconds, if the process still runs: both streams
\* are destroyed and the pipe rejects
PipeTimeout(r) ==
    /\ reqs[r].pc = "stalled"
    /\ reqs' = [reqs EXCEPT ![r] = PipeCatch(r, TRUE)]
    /\ UNCHANGED <<provider, links, storage, clock, jobs, idempotencyCache,
                   storeVars, cfgVars, tokenVars, sysVars>>

PipeGetStream ==
    /\ reqs # <<>>
    /\ GsStat \/ OpenHandle \/ PositionedReads \/ GsDecipher \/ GsFinally
PipeData == reqs # <<>> /\ reqs[1].pc = "piping" /\ (RangeData \/ ReadEnd)
PipeOpened   == \E r \in 1..Len(reqs) : PipeOpen(r)
PipeSettled  == \E r \in 1..Len(reqs) : PipeSettle(r)
PipeTimedOut == \E r \in 1..Len(reqs) : PipeTimeout(r)
PipeBurn     == \E r \in 1..Len(reqs) : DlBurn(r)
PipeNext ==
    \/ PipeArrive
    \/ PipeGetStream
    \/ PipeOpened
    \/ PipeData
    \/ PipeSettled
    \/ PipeTimedOut
    \/ PipeBurn

SpecDownloadPipe == PipeInit /\ [][PipeNext]_vars

\* the write pipeline with failing stages
PipelineFault == WriteRunning /\ \E kind \in StageFaults : StageFault(kind)
WriteFaultNext ==
    \/ Upload
    \/ SourceData
    \/ SinkWrite
    \/ End
    \/ Finish
    \/ Cleanup
    \/ PipelineFault

SpecWriteFaults == StoreInit /\ [][WriteFaultNext]_vars


(***************************************************************************)
(* Properties of the token codec.                                          *)
(***************************************************************************)
DecInput == Tampered(encrypt(dec.of.payload, <<dec.of.key>>, encryptionIv).token, dec.op)
DecOfIssued == dec.called /\ dec.op.kind = "none"

C3_TamperedTokenIsNull ==
    dec.called =>
        /\ (dec.op.field \in {2, 3} => dec.result = Null)
        /\ (dec.result.kind = "payload" => dec.result.value = dec.of.payload)

\* C7: a token issued under key K still decrypts to its payload while K is in
\* the keyring behind a newer key, and decrypts to null once K is gone.
C7_TokenKeyRotation ==
    (DecOfIssued /\ dec.of.key # encryptionKeys[1]) =>
        IF dec.of.key \in Present(encryptionKeys)
        THEN dec.result = Result("payload", dec.of.payload)
        ELSE dec.result = Null
C7_Witness ==
    /\ DecOfIssued
    /\ Len(encryptionKeys) >= 2
    /\ dec.of.key = encryptionKeys[2]
    /\ dec.result = Result("payload", dec.of.payload)
C7_WitnessRemoved ==
    /\ DecOfIssued
    /\ dec.of.key \notin Present(encryptionKeys)
    /\ dec.result = Null

\* C9: every token carries a nonce of its own: two different tokens never
\* have the same nonce field.
C9_FreshNoncePerToken ==
    \A t1, t2 \in issued :
        t1.token # t2.token => Split(t1.token)[1] # Split(t2.token)[1]

\* C10: decrypt returns null for every input that is not a token issued under
\* a key of the keyring, and never throws.
IssuedUnderKeyring ==
    {StringArg(t.token) : t \in {x \in issued : x.key \in Present(encryptionKeys)}}
C10_DecryptFailsClosed ==
    dec.called =>
        /\ dec.result.kind # "throw"
        /\ (DecInput \notin IssuedUnderKeyring => dec.result = Null)

(***************************************************************************)
(* Properties of the storage pipelines.                                    *)
(***************************************************************************)
ReadFinished == rd.pc \in {"ended", "errored", "rejected"}
WriteFinished == wr.pc \in {"resolved", "rejected"}
IsPrefix(a, b) == Len(a) <= Len(b) /\ a = SubSeq(b, 1, Len(a))
\* the stored object is as a resolved write left it
Intact == wr.pc = "resolved" /\ ~obj.tampered
\* an upload of at least four bytes whose leading bytes match no signature
BadSignature(bytes) == Len(bytes) >= MAGIC_CHECK_SIZE /\ ~HasAcceptedSignature(bytes)

\* C1: an upload with an accepted signature is stored, however it is split
\* into chunks, with the SHA-256 of its bytes as checksum, and read back under
\* the same current key it comes out byte for byte.
C1_ObjectRoundTrip ==
    /\ (WriteFinished /\ HasAcceptedSignature(wr.input)) =>
           /\ wr.pc = "resolved"
           /\ wr.checksum = Sha256(wr.input)
    /\ (Intact /\ HasAcceptedSignature(obj.plain) /\ obj.key = encryptionKeys[1]) =>
           /\ rd.pc = "streaming" => IsPrefix(rd.out, obj.plain)
           /\ ReadFinished => (rd.pc = "ended" /\ rd.out = obj.plain)
C1_Witness ==
    /\ Intact
    /\ HasAcceptedSignature(obj.plain)
    /\ Len(obj.plain) > MAGIC_CHECK_SIZE
    /\ rd.pc = "ended"
    /\ rd.out = obj.plain
    /\ wr.checksum = Sha256(obj.plain)

\* C4: the stream of a stored object with one bit changed never ends
\* normally; it finishes with an error.
C4_TamperedObjectErrors ==
    (wr.pc = "resolved" /\ obj.tampered) =>
        /\ rd.pc # "ended"
        /\ ReadFinished => rd.pc = "errored"
C4_Witness ==
    /\ wr.pc = "resolved"
    /\ obj.tampered
    /\ rd.pc = "errored"
    /\ rd.out # <<>>
    /\ rd.out # obj.plain

\* C5: an upload whose first four bytes match no signature is rejected, no
\* byte reaches the file before the rejection, and no file is left after it.
C5_SignatureRejection ==
    (obj.written /\ BadSignature(obj.plain) /\ wr.pc # "idle") =>
        /\ wr.pc # "resolved"
        /\ fileBytes = <<>>
        /\ wr.pc = "rejected" => ~fileExists

\* C6: saveLocalStream resolves only for uploads whose leading bytes matched
\* an entry of the signature table.
C6_EveryUploadChecked ==
    wr.pc = "resolved" => HasAcceptedSignature(wr.input)

\* C8: an object written under key K is read back as it was written while K
\* is anywhere in the keyring.
C8_ObjectKeyRotation ==
    (Intact /\ HasAcceptedSignature(obj.plain) /\ obj.key \in Present(encryptionKeys)
        /\ ReadFinished)
        => (rd.pc = "ended" /\ rd.out = obj.plain)

HasHandleField == rd.pc \in {"rejected", "open", "readIv", "readTag", "decipher",
                             "finally", "streaming"}

\* C13: getStream on a file of fewer than 32 bytes rejects with the
\* corruption error without having opened a file handle and without a stream;
\* a file of 32 bytes is not turned away by the size check.
C13_UndersizedRejected ==
    /\ (rd.pc # "idle" /\ fileExists /\ Len(fileBytes) < ivLength + tagLength) =>
           (rd.pc = "rejected" /\ rd.error = "corrupted" /\ rd.fd = "none")
    /\ (rd.pc = "rejected" /\ rd.error = "corrupted") =>
           Len(fileBytes) < ivLength + tagLength
C13_Witness ==
    /\ fileExists
    /\ Len(fileBytes) = ivLength + tagLength - 1
    /\ rd.pc = "rejected"
    /\ rd.error = "corrupted"
    /\ rd.fd = "none"
C13_WitnessAccepted ==
    /\ fileExists
    /\ Len(fileBytes) = ivLength + tagLength
    /\ rd.pc = "ended"

\* C14: once getStream has returned or rejected the handle of its positioned
\* reads is closed, if it was opened at all; it is not open while the stream
\* is consumed.
C14_ScopedReadHandle ==
    /\ rd.pc = "streaming" => rd.fd = "closed"
    /\ rd.pc = "rejected" => rd.fd \in {"none", "closed"}
    /\ (HasHandleField /\ rd.fd = "open") => rd.pc \in {"readIv", "readTag", "decipher", "finally"}
C14_Witness ==
    /\ rd.pc = "rejected"
    /\ rd.error = "createDecipheriv"
    /\ rd.fd = "closed"
C14_WitnessStreaming ==
    /\ rd.pc = "streaming"
    /\ rd.pos > 0
    /\ rd.fd = "closed"

(***************************************************************************)
(* Properties of uploads through the application server.                   *)
(***************************************************************************)
\* C15: with the S3 or the Azure provider saveLocalStream rejects every input
\* without reading from it and without creating a file, and the upload-local
\* route answers 404; only the local provider runs the write pipeline.
C15_WriteOnlyOnLocal ==
    /\ provider # "local" =>
           /\ ~fileExists /\ fileBytes = <<>> /\ ~obj.written
           /\ wr.pc \in {"idle", "rejected"}
           /\ wr.pc = "rejected" => (wr.error = "direct upload" /\ wr.rest = wr.input)
           /\ \A i \in 1..Len(reqs) : reqs[i].status = NotFound
    /\ provider = "local" => reqs = <<>>
C15_Witness ==
    /\ provider = "azure"
    /\ wr.pc = "rejected"
    /\ wr.input # <<>>
    /\ Len(reqs) > 0
    /\ reqs[1].status = NotFound
C15_WitnessLocal ==
    /\ provider = "local"
    /\ wr.pc = "resolved"
    /\ fileExists

(***************************************************************************)
(* Properties of key derivation.                                           *)
(***************************************************************************)
\* C16: for every configured key string the token codec and the local
\* storage strategy derive the same key, and it has 32 bytes.
C16_SameKeyDerivation ==
    \A i \in 1..Len(encryptionKeys) :
        /\ PARSED_KEYS(encryptionKeys)[i] = _parseKey(encryptionKeys[i])
        /\ PARSED_KEYS(encryptionKeys)[i].len = AES_KEY_BYTES

(***************************************************************************)
(* Properties of links and downloads.                                      *)
(***************************************************************************)
\* the requests that were served the file of link `id` while the link was
\* burn-after-read
BurnServed(id) ==
    {r \in 1..Len(reqs) : /\ reqs[r].served
                          /\ reqs[r].payload.id = id
                          /\ reqs[r].link[1].burn_after_read}

\* C17: the file of a burn-after-read link is served to one request at most.
C17_BurnServesOnce ==
    \A id \in 1..MaxId : Cardinality(BurnServed(id)) <= 1

\* C18: no request is served the file of a link whose stored expires_at has
\* passed.
C18_ExpiredNeverServed ==
    \A r \in 1..Len(reqs) : ~reqs[r].expiredWhenServed

(***************************************************************************)
(* Properties of the admin API.                                            *)
(***************************************************************************)
\* the user whose request created link `id`
CreatorOf(id) ==
    reqs[CHOOSE r \in 1..Len(reqs) : reqs[r].route = "createLink" /\ reqs[r].id = id].session.userId
\* the logged operations that changed or removed a link
Modifying(r) == reqs[r].route # "createLink" /\ reqs[r].status = Ok

\* C19: every update, soft delete, restore or permanent delete (single or
\* batch) that took effect for a session whose role is not admin acted on a
\* link that the session's user created.
C19_OwnershipScoping ==
    \A r \in 1..Len(reqs) :
        (Modifying(r) /\ reqs[r].session.role # "admin")
            => CreatorOf(reqs[r].id) = reqs[r].session.userId

(***************************************************************************)
(* Properties of the idempotency middleware.                               *)
(***************************************************************************)
\* two requests of one user with one accepted Idempotency-Key that arrived
\* less than the TTL apart
SameOperation(a, b) ==
    /\ a # b
    /\ reqs[a].key # <<>>
    /\ scopedKey(a) = scopedKey(b)
    /\ reqs[b].at - reqs[a].at < CACHE_TTL_MS
    /\ reqs[a].at - reqs[b].at < CACHE_TTL_MS

\* C20: of two requests of the same user with the same Idempotency-Key
\* within the TTL, the route handler completes successfully for one at most.
C20_HandledOnce ==
    \A a, b \in 1..Len(reqs) :
        SameOperation(a, b) => ~(reqs[a].handled /\ reqs[b].handled)

(***************************************************************************)
(* Properties of the request deduplication middleware.                     *)
(***************************************************************************)
\* request d was held back as a duplicate of the request reqs[d].dupOf
IsDuplicate(d) == reqs[d].route = "dedup" /\ reqs[d].dupOf # 0
\* the original has answered its client
OriginalAnswered(d) ==
    reqs[reqs[d].dupOf].pc \in {"finished", "done"} /\ reqs[reqs[d].dupOf].promise # "rejected"

\* C21: a duplicate of an in-flight request never runs the downstream
\* handler; once the original has answered, whatever kind of response it
\* gave, its result is there for the duplicate, and an answered duplicate
\* carries the original's status and body.
C21_DuplicateGetsOriginalAnswer ==
    \A d \in 1..Len(reqs) :
        IsDuplicate(d) =>
            /\ ~reqs[d].ran
            /\ OriginalAnswered(d) => reqs[reqs[d].dupOf].promise = "resolved"
            /\ reqs[d].pc = "done" =>
                   /\ reqs[d].status = reqs[reqs[d].dupOf].status
                   /\ reqs[d].body = reqs[reqs[d].dupOf].body

(***************************************************************************)
(* Properties of the in-memory job queue.                                  *)
(***************************************************************************)
\* C22: the number of jobs in activeJobs never exceeds config.concurrency.
C22_ConcurrencyBound == Cardinality(activeJobs) <= concurrency
C22_Witness ==
    /\ Cardinality(activeJobs) = concurrency
    /\ queues.normal # <<>>
    /\ \E job \in activeJobs : job.retryCount > 0

\* where a job that addJob accepted is
InQueue(id, q) == \E i \in 1..Len(queues[q]) : queues[q][i].id = id
InActive(id)   == \E job \in activeJobs : job.id = id
InFailed(id)   == \E i \in 1..Len(failedJobs) : failedJobs[i].id = id
Places(id) ==
    {q \in QueueNames : InQueue(id, q)}
        \cup (IF InActive(id) THEN {"activeJobs"} ELSE {})
        \cup (IF jobLog[id].completed THEN {"completed"} ELSE {})
        \cup (IF InFailed(id) THEN {"failedJobs"} ELSE {})
\* the queue addJob puts a job of this priority into
QueueOf(priority) == IF priority \in QueueNames THEN priority ELSE "normal"

WasExpired(p) == p.row.expires_at # <<>> /\ p.row.expires_at[1] < p.fetchedAt
\* the row had been soft-deleted for longer than the retention period when
\* the run began
WasPastRetention(p) ==
    p.row.deleted_at # <<>> /\ p.startedAt - p.row.deleted_at[1] > trashRetentionDays
InsideRetention(id) ==
    /\ links[id].deleted_at # <<>>
    /\ clock - links[id].deleted_at[1] <= trashRetentionDays
    /\ ~IsExpired(links[id].expires_at, clock)

C24_WitnessNotServed ==
    \E r \in 1..Len(reqs) :
        /\ reqs[r].status = NotFound
        /\ reqs[r].route = "landing" => reqs[r].trashed
        /\ reqs[r].route = "download" =>
               /\ reqs[r].payload.id \in DOMAIN links
               /\ links[reqs[r].payload.id].deleted_at # <<>>

\* C27: a row that processCleanup deleted belongs to a link whose storage
\* object storageService.delete removed in the same run, and every stored
\* file has a row or a pending file_deletion job.
C27_RowAndFileInStep ==
    /\ \A p \in gc.purged : p.kind = "row" => p.removed
    /\ \A f \in storage :
           \/ \E id \in DOMAIN links : links[id].filename = f
           \/ \E j \in 1..Len(jobs) : jobs[j].type = "file_deletion" /\ jobs[j].storageKey = f

\* C28: a run of processCleanup that began with at most 1000 garbage links,
\* every deletion succeeding, leaves no garbage link when it returns.
C28_OneRunDrains ==
    gc.pc = "idle" /\ gc.runs > 0 /\ gc.totalGarbage <= MAX_ITEMS_PER_RUN
        => GarbageIds(clock, gc.cutoffDate) = {}

(***************************************************************************)
(* Properties of processDownload's checks.                                 *)
(***************************************************************************)
BurnJobs == {j \in 1..Len(jobs) : jobs[j].type = "burn_deletion"}
\* what the request presented and what it looked up pass every check
PassesChecks(r) ==
    LET payload == decrypt(StringArg(reqs[r].token), encryptionKeys)
    IN  /\ payload.kind = "payload"
        /\ payload.value.id # 0
        /\ payload.value.exp = <<>> \/ payload.value.exp[1] >= clock
        /\ reqs[r].link # <<>>
        /\ reqs[r].link[1].deleted_at = <<>>
        /\ reqs[r].link[1].password_hash # <<>> => payload.value.id \in reqs[r].auth

\* C25: a download that served content presented a token that decrypts to a
\* payload with an id whose exp is absent or not in the past, found a link
\* that was not soft-deleted, and, for a link with a password hash, came with
\* the session flag of that link; burn_deletion jobs are queued only by
\* downloads that served content.
C25_DownloadAuthorization ==
    /\ \A r \in 1..Len(reqs) : reqs[r].served => PassesChecks(r)
    /\ Cardinality(BurnJobs) <=
           Cardinality({r \in 1..Len(reqs) : reqs[r].served /\ reqs[r].link[1].burn_after_read})
\* a protected link was served to a session that holds its flag
C25_Witness ==
    \E r \in 1..Len(reqs) :
        /\ reqs[r].served
        /\ reqs[r].status = Ok
        /\ reqs[r].link[1].password_hash # <<>>
        /\ reqs[r].link[1].burn_after_read
        /\ BurnJobs # {}
\* a protected link was refused to a session without its flag
C25_WitnessRefused ==
    \E r \in 1..Len(reqs) :
        /\ reqs[r].status \in {Found, Forbidden}
        /\ reqs[r].link # <<>>
        /\ reqs[r].link[1].password_hash # <<>>
        /\ ~reqs[r].served
        /\ BurnJobs = {}

(***************************************************************************)
(* Properties of the download pipe.                                        *)
(***************************************************************************)
\* C26: when the stream of getStream fails tag verification during a
\* download, its error has a listener, the pipe rejects or the response is
\* aborted, the download is not reported as completed, and no burn_deletion
\* job is queued.
C26_TagFailureHandled ==
    \A r \in 1..Len(reqs) :
        reqs[r].pc # "getStream" /\ rd.pc = "errored" =>
            /\ ~reqs[r].unhandled
            /\ reqs[r].pc \notin {"piping", "burn"} => reqs[r].pipe = "rejected" \/ reqs[r].aborted
            /\ reqs[r].pc # "burn" /\ reqs[r].status # Ok
            /\ BurnJobs = {}

====
